---- MODULE Spec2Model ----
(***************************************************************************)
(* A model of mwoffliner.js: the run orchestrator (the async.series of     *)
(* phases), the media pipeline (downloadFileQueue, optimizationQueue, the  *)
(* redis media store and the on-disk cache) and the article pipeline       *)
(* (title enumeration, redirects, saveArticles).                           *)
(*                                                                         *)
(* Three specifications share the variables:                               *)
(*   SpecRun      the phases of one run, from login to process.exit        *)
(*   SpecMedia    one dump variant's media work, saveArticles to buildZIM  *)
(*   SpecArticles enumeration, redirects and saveArticles of one variant   *)
(* Each leaves the variables of the other parts at their initial value.    *)
(***************************************************************************)
EXTENDS Integers, Sequences, FiniteSets, TLC

(***************************************************************************)
(* Bounds of the model.                                                    *)
(***************************************************************************)
\* longest list of dump variants given with --format
MaxDumps == 2

(***************************************************************************)
(* PART 1: the run orchestrator                                            *)
(***************************************************************************)
VARIABLES
    dumps,              \* the list of dump variants still to produce
    resume,             \* --resume
    zimExists,          \* the nopic values whose final archive exists on disk
    writeHtmlRedirects, \* --writeHtmlRedirects
    skipCacheCleaning,  \* --skipCacheCleaning
    keepHtmlArg,        \* --keepHtml as given on the command line
    keepHtml,           \* the module variable keepHtml
    nopic,              \* the module variable nopic
    nozim,              \* the module variable nozim
    phase,              \* the phase function called last
    running,            \* TRUE from the call of the phase to its finished()
    lastError,          \* what the phase handed to finished(): TRUE for an error
    dumpIdx,            \* index in dumps of the variant being produced
    exitCode,           \* -1 while the process runs, else the code of process.exit
    dbDeleted,          \* the four run-prefixed redis databases have been deleted
    mediaIds,           \* redisMediaIdsDatabase holds the fields of a variant
    trace,              \* history: the starts and completions of the phases
    failedSteps         \* history: <<phase, variant>> of the steps that called
                        \* finished(error)

runVars == <<dumps, resume, zimExists, writeHtmlRedirects, skipCacheCleaning,
             keepHtmlArg, keepHtml, nopic, nozim, phase, running, lastError,
             dumpIdx, exitCode, dbDeleted, mediaIds, trace, failedSteps>>

\* the run variables other than phase and exitCode
phaseOnly == <<dumps, resume, zimExists, writeHtmlRedirects, skipCacheCleaning,
               keepHtmlArg, keepHtml, nopic, nozim, running, lastError, dumpIdx,
               dbDeleted, mediaIds, trace, failedSteps>>

\* a dump variant: the two words looked for in each --format value
DumpVariants == [nopic : BOOLEAN, nozim : BOOLEAN]

\* the tasks of the main async.series, in the order of the array
MainSteps == <<"login", "getTextDirection", "getSiteInfo", "getSubTitle",
               "getNamespaces", "createDirectories", "prepareCache",
               "checkResume", "getArticleIds", "cacheRedirects">>

\* the tasks of the async.series run for each dump variant
DumpSteps == <<"createSubDirectories", "saveFavicon", "getMainPage",
               "saveHtmlRedirects", "saveArticles", "drainDownloadFileQueue",
               "drainOptimizationQueue", "buildZIM", "endProcess">>

\* what follows the loop over the variants
FinalSteps == <<"cleanCache", "delDatabases", "closeAgents", "exit">>

IndexOf(seq, x) == CHOOSE i \in 1..Len(seq) : seq[i] = x
InSeq(seq, x) == \E i \in 1..Len(seq) : seq[i] = x

\* checkResume: the variants left after the splice loop
RECURSIVE checkResumeLoop(_, _, _, _)
RECURSIVE checkResumeLoop_noDecrement(_, _, _, _)
RECURSIVE checkResumeLoop_alsoNozim(_, _, _, _)
\* (as checkResumeLoop, without the i-- that follows the splice)
checkResumeLoop_noDecrement(ds, i, res, zims) ==
    IF i > Len(ds) THEN ds
    ELSE IF res /\ ~ds[i].nozim /\ ds[i].nopic \in zims
         THEN checkResumeLoop_noDecrement(
                  SubSeq(ds, 1, i - 1) \o SubSeq(ds, i + 1, Len(ds)), i + 1, res, zims)
         ELSE checkResumeLoop_noDecrement(ds, i + 1, res, zims)

\* (as checkResumeLoop, without the test on nozim)
checkResumeLoop_alsoNozim(ds, i, res, zims) ==
    IF i > Len(ds) THEN ds
    ELSE IF res /\ ds[i].nopic \in zims
         THEN checkResumeLoop_alsoNozim(
                  SubSeq(ds, 1, i - 1) \o SubSeq(ds, i + 1, Len(ds)), i, res, zims)
         ELSE checkResumeLoop_alsoNozim(ds, i + 1, res, zims)

checkResumeLoop(ds, i, res, zims) ==
    IF i > Len(ds) THEN ds
    ELSE IF res /\ ~ds[i].nozim /\ ds[i].nopic \in zims
         THEN checkResumeLoop(SubSeq(ds, 1, i - 1) \o SubSeq(ds, i + 1, Len(ds)),
                              i, res, zims)
         ELSE checkResumeLoop(ds, i + 1, res, zims)

\* buildZIM leaves the HTML tree of the variant in place: no archive is built
\* (nozim), or 'if (keepHtml)' skips the rm -rf
HtmlKept(isNozim, keep) ==
    isNozim \/ keep

\* What a phase can hand over when it ends: "ok" finished(), "err" finished(error),
\* "exit1" process.exit(1), "exit42" an uncaught exception, "kvErr" the del of the
\* four databases answered with an error, which its callback does not look at.
Outcomes(p, isNozim, keep) ==
    CASE p = "login" -> {"ok", "exit1", "exit42"}
      [] p = "getTextDirection" -> {"ok"}
      [] p = "getSiteInfo" -> {"ok", "exit42"}
      [] p = "getSubTitle" -> {"ok"}
      [] p = "getNamespaces" -> {"ok", "exit42"}
      [] p = "createDirectories" -> {"ok", "exit1"}
      [] p = "prepareCache" -> {"ok", "exit42"}
      [] p = "checkResume" -> {"ok", "err"}
      [] p = "getArticleIds" -> {"ok", "exit1", "exit42"}
      [] p = "cacheRedirects" -> {"ok", "exit1"}
      [] p = "createSubDirectories" -> {"ok", "exit1"}
      [] p = "saveFavicon" -> {"ok", "exit42"}
      [] p = "getMainPage" -> {"ok", "err"}
      [] p = "saveHtmlRedirects" -> {"ok", "exit1"}
      [] p = "saveArticles" -> {"ok", "exit1", "exit42"}
      [] p = "drainDownloadFileQueue" -> {"ok", "exit1"}
      [] p = "drainOptimizationQueue" -> {"ok"}
      [] p = "buildZIM" -> IF isNozim THEN {"ok"}
                           ELSE IF HtmlKept(isNozim, keep) THEN {"ok", "exit1"}
                           ELSE {"ok", "err", "exit1"}
      [] p = "endProcess" -> {"ok", "err"}
      [] p = "cleanCache" -> {"ok", "err"}
      [] p = "delDatabases" -> {"ok", "kvErr"}
      [] p = "closeAgents" -> {"ok"}
      [] OTHER -> {}

\* The step of the per-variant series that follows step k (0: before the first),
\* or 0 when the series is over. A step that does not call its phase is passed.
\* (as NextDumpStep, with buildZIM placed before the two drain steps)
NextDumpStep_buildZIMFirst(k, whr) ==
    IF k >= Len(DumpSteps) THEN 0
    ELSE IF DumpSteps[k + 1] = "saveHtmlRedirects" /\ ~whr THEN k + 2
    ELSE IF k > 0 /\ DumpSteps[k] = "saveArticles" THEN k + 3
    ELSE IF k > 0 /\ DumpSteps[k] = "buildZIM" THEN k - 2
    ELSE IF k > 0 /\ DumpSteps[k] = "drainOptimizationQueue" THEN k + 2
    ELSE k + 1

NextDumpStep(k, whr) ==
    IF k >= Len(DumpSteps) THEN 0
    ELSE IF DumpSteps[k + 1] = "saveHtmlRedirects" /\ ~whr THEN k + 2
    ELSE k + 1

\* The phase called once phase p has ended with error flag err, as
\* <<phase, index of the variant>>.
NextPhase(p, err, d, ds, whr) ==
    IF InSeq(MainSteps, p) THEN
        IF err THEN <<"delDatabases", d>>
        ELSE IF IndexOf(MainSteps, p) < Len(MainSteps)
             THEN <<MainSteps[IndexOf(MainSteps, p) + 1], d>>
        ELSE IF Len(ds) = 0 THEN <<"cleanCache", d>>
        ELSE <<DumpSteps[NextDumpStep(0, whr)], 1>>
    ELSE IF InSeq(DumpSteps, p) THEN
        IF ~err /\ NextDumpStep(IndexOf(DumpSteps, p), whr) # 0
        THEN <<DumpSteps[NextDumpStep(IndexOf(DumpSteps, p), whr)], d>>
        ELSE IF d < Len(ds) THEN <<DumpSteps[NextDumpStep(0, whr)], d + 1>>
        ELSE <<"cleanCache", d>>
    ELSE <<FinalSteps[IndexOf(FinalSteps, p) + 1], d>>

InitRun ==
    /\ dumps \in UNION {[1..n -> DumpVariants] : n \in 1..MaxDumps}
    /\ resume \in BOOLEAN
    /\ zimExists \in SUBSET BOOLEAN
    /\ (~resume => zimExists = {})
    /\ writeHtmlRedirects \in BOOLEAN
    /\ skipCacheCleaning \in BOOLEAN
    /\ keepHtmlArg \in BOOLEAN
    /\ keepHtml = keepHtmlArg
    /\ nopic = FALSE
    /\ nozim = FALSE
    /\ phase = "login"
    /\ running = TRUE
    /\ lastError = FALSE
    /\ dumpIdx = 0
    /\ exitCode = -1
    /\ dbDeleted = FALSE
    /\ mediaIds = FALSE
    /\ trace = <<[ev |-> "start", ph |-> "login", d |-> 0]>>
    /\ failedSteps = {}

\* The run part at rest, for the specifications of the other parts.
IdleRun ==
    /\ dumps = <<[nopic |-> FALSE, nozim |-> FALSE]>>
    /\ resume = FALSE
    /\ zimExists = {}
    /\ writeHtmlRedirects = FALSE
    /\ skipCacheCleaning = FALSE
    /\ keepHtmlArg = FALSE
    /\ keepHtml = FALSE
    /\ nopic = FALSE
    /\ nozim = FALSE
    /\ phase = "saveArticles"
    /\ running = TRUE
    /\ lastError = FALSE
    /\ dumpIdx = 1
    /\ exitCode = -1
    /\ dbDeleted = FALSE
    /\ mediaIds = FALSE
    /\ trace = <<>>
    /\ failedSteps = {}

\* redisMediaIdsDatabase after a phase: downloadFileAndCache sets a field for
\* every media file of the articles saved (media: there was one), endProcess
\* deletes the database, unless del answers with an error
MediaIdsAfter(p, o, media, held) ==
    CASE p = "saveArticles" -> held \/ media
      [] p = "endProcess" /\ o = "ok" -> FALSE
      [] OTHER -> held

\* A phase other than checkResume calls finished(), finished(error), or exits.
FinishPhase(o) ==
    /\ exitCode = -1
    /\ running
    /\ phase # "checkResume"
    /\ o \in Outcomes(phase, nozim, keepHtml)
    /\ IF o \in {"exit1", "exit42"}
       THEN /\ exitCode' = (IF o = "exit1" THEN 1 ELSE 42)
            /\ UNCHANGED <<running, lastError, trace>>
       ELSE /\ running' = FALSE
            /\ lastError' = (o = "err")
            /\ trace' = Append(trace, [ev |-> "done", ph |-> phase, d |-> dumpIdx])
            /\ UNCHANGED exitCode
    /\ dbDeleted' = (dbDeleted \/ (phase = "delDatabases" /\ o = "ok"))
    /\ \E media \in BOOLEAN : mediaIds' = MediaIdsAfter(phase, o, media, mediaIds)
    /\ failedSteps' = (IF o = "err" THEN failedSteps \cup {<<phase, dumpIdx>>}
                       ELSE failedSteps)
    /\ UNCHANGED <<dumps, resume, zimExists, writeHtmlRedirects, skipCacheCleaning,
                   keepHtmlArg, keepHtml, nopic, nozim, phase, dumpIdx>>

\* checkResume: splices the variants whose archive exists, finished(dumps.length <= 0)
checkResume ==
    /\ exitCode = -1
    /\ running
    /\ phase = "checkResume"
    /\ dumps' = checkResumeLoop(dumps, 1, resume, zimExists)
    /\ nopic' = dumps[Len(dumps)].nopic
    /\ nozim' = dumps[Len(dumps)].nozim
    /\ running' = FALSE
    /\ lastError' = (Len(dumps') <= 0)
    /\ trace' = Append(trace, [ev |-> "done", ph |-> phase, d |-> dumpIdx])
    /\ UNCHANGED <<resume, zimExists, writeHtmlRedirects, skipCacheCleaning,
                   keepHtmlArg, keepHtml, phase, dumpIdx, exitCode, dbDeleted,
                   mediaIds,
                   failedSteps>>

\* async.series / async.eachSeries call the next task once the last one has ended.
\* Entering a variant's series sets nopic, nozim and keepHtml first.
StartPhase ==
    /\ exitCode = -1
    /\ ~running
    /\ phase # "exit"
    /\ LET nx == NextPhase(phase, lastError, dumpIdx, dumps, writeHtmlRedirects)
           \* errors of a variant's series and of cleanCache are dropped by the callbacks
           newDump == InSeq(DumpSteps, nx[1]) /\ nx[2] # dumpIdx
       IN /\ phase' = nx[1]
          /\ dumpIdx' = nx[2]
          /\ nopic' = (IF newDump THEN dumps[nx[2]].nopic ELSE nopic)
          /\ nozim' = (IF newDump THEN dumps[nx[2]].nozim ELSE nozim)
          /\ keepHtml' = (IF newDump /\ dumps[nx[2]].nozim THEN TRUE ELSE keepHtml)
          /\ trace' = Append(trace, [ev |-> "start", ph |-> nx[1], d |-> nx[2]])
          /\ IF nx[1] = "exit"
             THEN exitCode' = 0 /\ running' = FALSE
             ELSE exitCode' = exitCode /\ running' = TRUE
    /\ lastError' = FALSE
    /\ UNCHANGED <<dumps, resume, zimExists, writeHtmlRedirects, skipCacheCleaning,
                   keepHtmlArg, dbDeleted, mediaIds, failedSteps>>

(***************************************************************************)
(* PART 2: the media pipeline of one dump variant                          *)
(***************************************************************************)
\* number of media URLs pushed to downloadFileQueue by the rewritten articles
MaxRequests == 2
\* os.cpus().length and the --speed multiplier
cpuCount == 1
speedArg == 2
speed == cpuCount * speedArg

\* as Process, with one worker more than the concurrency
Process_oneMore(workers, concurrency) ==
    workers <= concurrency

\* async.queue process() and async.eachLimit: an item is started while fewer
\* than concurrency workers run
Process(workers, concurrency) ==
    workers < concurrency

\* the filenameBase values and the widths (NNNpx-, or none) of the media URLs
Bases == {"A.png", "B.png"}
Widths == {120, 300}
\* a file that does not exist; the empty Buffer of an exhausted download
NoFile == 0
EmptyBody == -1
\* a headers file that JSON.parse rejects
Garbled == -2

\* A title is a tuple of characters. Two of the three titles of the model differ
\* only by '/' against '_'.
Titles == {<<"A", "/", "B">>, <<"A", "_", "B">>, <<"C">>}
NoTitle == <<>>
\* what the article endpoint can answer for a title: a JSON object with lead and
\* remaining, a JSON object without lead, a falsy JSON value (0, false, ""), the
\* JSON null, and the empty body of an exhausted fetch
BodyKinds == {"ok", "nolead", "falsy", "null", "empty"}

VARIABLES
    dlTasks,        \* the tasks of downloadFileQueue, in the order pushed; of each:
                    \*   base, width  filenameBase and width parsed from the URL
                    \*   st           the callback the task waits for
                    \*   called       history: the calls of callback(), the
                    \*                finished of the worker
                    \*   seen         the width the store held when hget was answered
                    \*   kvErr        hget was answered with an error
                    \*   content      the body downloadContent handed over
                    \*   link, hdr    the task created the symlink / wrote the .h file
                    \*   look         the cache lookup of the task: "none", "hit", "miss"
                    \*   bodySeen, hdrSeen  the cache entry the lookup found
    optTasks,       \* the tasks of optimizationQueue, in the order pushed
    drain,          \* "poll": doWhilst timer armed; "sentinel": empty item pushed
    redisQ,         \* the redis commands sent and not yet answered, in order
    mediaStore,     \* redisMediaIdsDatabase: filenameBase -> width (0: no field)
    cachedToCheck,  \* redisCachedMediaToCheckDatabase: filenameBase -> width
    cacheBody,      \* cache file m/<sha1(filenameBase)>: what it holds
    cacheHdr,       \* its .h sibling: the width it records
    cacheMtime,     \* of both files: TRUE when the mtime is newer than the ref file
    pageCache,      \* the cache entry of the article URL of each title:
                    \*   body        "none" or the kind of body cached
                    \*   hdr         the .h sibling: "none", "ok", "garbled"
                    \*   mbody, mhdr TRUE when the mtime is newer than the ref file
    mediaLink,      \* the symlink in the media directory exists
    symlinkIO       \* cache-hit tasks whose fs.symlink has not called back yet

mediaVars == <<dlTasks, optTasks, drain, redisQ, mediaStore, cachedToCheck,
               cacheBody, cacheHdr, cacheMtime, pageCache, mediaLink, symlinkIO>>

\* async.queue: idle() is tasks.length + workers === 0
DlIdle == \A i \in 1..Len(dlTasks) : dlTasks[i].st = "done"
OptIdle == \A i \in 1..Len(optTasks) : optTasks[i].st = "done"
DlWorkers == {i \in 1..Len(dlTasks) : dlTasks[i].st \notin {"queued", "done"}}
OptWorkers == {i \in 1..Len(optTasks) : optTasks[i].st \notin {"queued", "done"}}
\* the task shifted next from the queue
DlHead(i) == /\ dlTasks[i].st = "queued"
             /\ \A j \in 1..(i - 1) : dlTasks[j].st # "queued"
OptHead(i) == /\ optTasks[i].st = "queued"
              /\ \A j \in 1..(i - 1) : optTasks[j].st # "queued"

\* downloadFileAndCache, the test on the answer of hget: what no field, a smaller
\* width and a width at least as large lead to
NeedsDownload_noCheck(r_width, width) == TRUE

NeedsDownload(r_width, width) == r_width = 0 \/ r_width < width

\* as CacheHit, without the test that the headers file exists and parses
CacheHit_bodyOnly(body, hdrWidth, width) ==
    body # NoFile /\ ~(hdrWidth \in Widths /\ hdrWidth < width)

\* downloadFileAndCache, the test on the cache entry: TRUE when it is used (a hit):
\* both files exist, the headers file parses and its width is not smaller
CacheHit(body, hdrWidth, width) ==
    body # NoFile /\ hdrWidth # NoFile /\ hdrWidth # Garbled /\ ~(hdrWidth < width)

\* downloadContentAndCache, the series of the two readFile: TRUE when neither
\* read fails and the headers file parses (a hit)
PageCacheHit(body, hdr) ==
    body # "none" /\ hdr = "ok"

NoPage == [body |-> "none", hdr |-> "none", mbody |-> FALSE, mhdr |-> FALSE]

\* the page cache entries a run can find: none, a complete entry (of an answer
\* with or without lead, or the empty body of an exhausted fetch), a body
\* whose headers file is missing or does not parse
PageEntries ==
    {NoPage}
      \cup {[body |-> b, hdr |-> "ok", mbody |-> FALSE, mhdr |-> FALSE] :
                b \in {"ok", "nolead", "empty"}}
      \cup {[body |-> "ok", hdr |-> h, mbody |-> FALSE, mhdr |-> FALSE] :
                h \in {"none", "garbled"}}

\* the cache entries a run can find for A.png (B.png is not in the cache): none,
\* a complete entry, a body whose headers file is missing, a body whose headers
\* file does not parse
CacheEntries ==
    {[body |-> NoFile, hdr |-> NoFile]}
      \cup {[body |-> w, hdr |-> w] : w \in Widths}
      \cup {[body |-> 300, hdr |-> NoFile], [body |-> 300, hdr |-> Garbled]}

InitMedia ==
    /\ dlTasks = <<>>
    /\ optTasks = <<>>
    /\ drain = "poll"
    /\ redisQ = <<>>
    /\ mediaStore = [b \in Bases |-> 0]
    /\ cachedToCheck = [b \in Bases |-> 0]
    /\ \E e \in CacheEntries :
          /\ cacheBody = [b \in Bases |-> IF b = "A.png" THEN e.body ELSE NoFile]
          /\ cacheHdr = [b \in Bases |-> IF b = "A.png" THEN e.hdr ELSE NoFile]
    /\ cacheMtime = [b \in Bases |-> [body |-> FALSE, hdr |-> FALSE]]
    /\ mediaLink = [b \in Bases |-> FALSE]
    /\ symlinkIO = {}

IdleMedia ==
    /\ dlTasks = <<>>
    /\ optTasks = <<>>
    /\ drain = "poll"
    /\ redisQ = <<>>
    /\ mediaStore = [b \in Bases |-> 0]
    /\ cachedToCheck = [b \in Bases |-> 0]
    /\ cacheHdr = [b \in Bases |-> NoFile]
    /\ cacheBody = [b \in Bases |-> NoFile]
    /\ cacheMtime = [b \in Bases |-> [body |-> FALSE, hdr |-> FALSE]]
    /\ mediaLink = [b \in Bases |-> FALSE]
    /\ symlinkIO = {}

Alive == exitCode = -1

\* as CallsBack, the cache hit ending without callback()
CallsBack_notOnHit(path) ==
    path # "hit"

\* downloadFileAndCache ends with callback(): "satisfied", the store holds a
\* width at least as large; "hit", the cache entry is used; "downloaded",
\* the headers file was written after downloadFile, whose body may be the
\* empty one of a failed download
CallsBack(path) ==
    path \in {"satisfied", "hit", "downloaded"}

\* the task after the end of downloadFileAndCache on a path
Signal(task, path) ==
    IF CallsBack(path)
    THEN [task EXCEPT !.st = "done", !.called = @ + 1]
    ELSE [task EXCEPT !.st = "lost"]

\* transformSection / transformLeadProperties: downloadFileQueue.push(src)
PushMedia(b, w) ==
    /\ Alive /\ phase = "saveArticles"
    /\ Len(dlTasks) < MaxRequests
    /\ dlTasks' = Append(dlTasks, [base |-> b, width |-> w, st |-> "queued",
                                   called |-> 0,
                                   seen |-> 0, kvErr |-> FALSE, content |-> NoFile,
                                   link |-> FALSE, hdr |-> FALSE, look |-> "none",
                                   bodySeen |-> NoFile, hdrSeen |-> NoFile])
    /\ UNCHANGED <<optTasks, drain, redisQ, mediaStore, cachedToCheck, cacheBody,
                   cacheHdr, mediaLink, symlinkIO, runVars,
                   cacheMtime, pageCache>>

\* downloadFileQueue worker on a URL: downloadFileAndCache sends hget
DlStart(i) ==
    /\ Alive
    /\ i \in 1..Len(dlTasks) /\ DlHead(i)
    /\ Process(Cardinality(DlWorkers), speed * 5)
    /\ dlTasks' = [dlTasks EXCEPT ![i].st = "hget"]
    /\ redisQ' = Append(redisQ, [t |-> i, op |-> "hget"])
    /\ UNCHANGED <<optTasks, drain, mediaStore, cachedToCheck, cacheBody,
                   cacheHdr, mediaLink, symlinkIO, runVars,
                   cacheMtime, pageCache>>

\* the callback of hget (error: redis answered with an error and no value): the
\* width is known already, or hset is sent
HgetReply(error) ==
    /\ Alive
    /\ Len(redisQ) > 0 /\ redisQ[1].op = "hget"
    /\ LET i == redisQ[1].t
           r_width == IF error THEN 0 ELSE mediaStore[dlTasks[i].base]
       IN IF error \/ NeedsDownload(r_width, dlTasks[i].width)
          THEN /\ dlTasks' = [dlTasks EXCEPT ![i].st = "hset", ![i].kvErr = error,
                                             ![i].seen = mediaStore[dlTasks[i].base]]
               /\ redisQ' = Append(Tail(redisQ), [t |-> i, op |-> "hset"])
          ELSE /\ dlTasks' = [dlTasks EXCEPT ![i] = Signal([@ EXCEPT !.seen = r_width],
                                                            "satisfied")]
               /\ redisQ' = Tail(redisQ)
    /\ UNCHANGED <<optTasks, drain, mediaStore, cachedToCheck, cacheBody,
                   cacheHdr, mediaLink, symlinkIO, runVars,
                   cacheMtime, pageCache>>

\* the callback of hset: the cache entry is looked up (existsSync, readFileSync);
\* a hit starts fs.symlink, sends hdel or hset on the c database and calls back
\* at once; otherwise downloadFile starts with fs.stat. An error of hset ends
\* the process.
HsetReply(error) ==
    /\ Alive
    /\ Len(redisQ) > 0 /\ redisQ[1].op = "hset"
    /\ LET i == redisQ[1].t
           b == dlTasks[i].base
           w == dlTasks[i].width
       IN IF error
          THEN /\ exitCode' = 1
               /\ redisQ' = Tail(redisQ)
               /\ UNCHANGED <<mediaStore, symlinkIO, dlTasks>>
          ELSE /\ exitCode' = exitCode
               /\ mediaStore' = [mediaStore EXCEPT ![b] = w]
               /\ IF CacheHit(cacheBody[b], cacheHdr[b], w)
                  THEN /\ symlinkIO' = symlinkIO \cup {i}
                       /\ redisQ' = Append(Tail(redisQ),
                                 [t |-> i, op |-> IF cacheHdr[b] = w THEN "hdelC" ELSE "hsetC"])
                       /\ dlTasks' = [dlTasks EXCEPT ![i] =
                                 Signal([@ EXCEPT !.look = "hit",
                                                  !.bodySeen = cacheBody[b],
                                                  !.hdrSeen = cacheHdr[b]], "hit")]
                  ELSE /\ symlinkIO' = symlinkIO
                       /\ redisQ' = Tail(redisQ)
                       /\ dlTasks' = [dlTasks EXCEPT ![i].st = "stat", ![i].look = "miss",
                                                     ![i].bodySeen = cacheBody[b],
                                                     ![i].hdrSeen = cacheHdr[b]]
    /\ UNCHANGED <<optTasks, drain, cachedToCheck, cacheBody, cacheHdr, cacheMtime, pageCache,
                   mediaLink, phase, phaseOnly>>

\* the answers to the hdel / hset sent on the cached-media-to-check database:
\* hdel is sent without a callback, an error of hset ends the process
CheckDbReply(error) ==
    /\ Alive
    /\ Len(redisQ) > 0 /\ redisQ[1].op \in {"hdelC", "hsetC"}
    /\ LET i == redisQ[1].t
       IN cachedToCheck' = [cachedToCheck EXCEPT ![dlTasks[i].base] =
                               IF error THEN @
                               ELSE IF redisQ[1].op = "hdelC" THEN 0 ELSE dlTasks[i].width]
    /\ exitCode' = (IF error /\ redisQ[1].op = "hsetC" THEN 1 ELSE exitCode)
    /\ redisQ' = Tail(redisQ)
    /\ UNCHANGED <<dlTasks, optTasks, drain, mediaStore, cacheBody, cacheHdr,
                   mediaLink, symlinkIO, phase, phaseOnly,
                   cacheMtime, pageCache>>

\* the callback of the fire-and-forget fs.symlink of the cache-hit path: with
\* cache cleaning, touch(cachePath) when the symlink existed already (EEXIST),
\* and touch(cacheHeadersPath) in every case
HitSymlinkDone(i) ==
    /\ Alive
    /\ i \in symlinkIO
    /\ symlinkIO' = symlinkIO \ {i}
    /\ mediaLink' = [mediaLink EXCEPT ![dlTasks[i].base] = TRUE]
    /\ cacheMtime' = [cacheMtime EXCEPT ![dlTasks[i].base] =
                         IF skipCacheCleaning THEN @
                         ELSE [body |-> @.body \/ mediaLink[dlTasks[i].base],
                               hdr |-> TRUE]]
    /\ UNCHANGED <<dlTasks, optTasks, drain, redisQ, mediaStore, cachedToCheck,
                   cacheBody, cacheHdr, runVars, pageCache>>

\* downloadFile: the callback of fs.stat (force is true): downloadContent starts
StatDone(i) ==
    /\ Alive
    /\ i \in 1..Len(dlTasks) /\ dlTasks[i].st = "stat"
    /\ dlTasks' = [dlTasks EXCEPT ![i].st = "http"]
    /\ UNCHANGED <<optTasks, drain, redisQ, mediaStore, cachedToCheck, cacheBody,
                   cacheHdr, mediaLink, symlinkIO, runVars,
                   cacheMtime, pageCache>>

\* downloadContent: what the final callback of async.retry hands to the caller
\* when the last attempt has failed
ExhaustedBody(w) == EmptyBody

\* downloadContent: every attempt of async.retry has failed; the caller gets an
\* empty Buffer and no error, and downloadFile writes it to the cache path
HttpFail(i) ==
    /\ Alive
    /\ i \in 1..Len(dlTasks) /\ dlTasks[i].st = "http"
    /\ dlTasks' = [dlTasks EXCEPT ![i].st = "writeBody",
                                  ![i].content = ExhaustedBody(dlTasks[i].width)]
    /\ UNCHANGED <<optTasks, drain, redisQ, mediaStore, cachedToCheck, cacheBody,
                   cacheHdr, mediaLink, symlinkIO, runVars,
                   cacheMtime, pageCache>>

\* downloadContent: an attempt has answered 200; downloadFile writes the body
HttpOk(i) ==
    /\ Alive
    /\ i \in 1..Len(dlTasks) /\ dlTasks[i].st = "http"
    /\ dlTasks' = [dlTasks EXCEPT ![i].st = "writeBody", ![i].content = dlTasks[i].width]
    /\ UNCHANGED <<optTasks, drain, redisQ, mediaStore, cachedToCheck, cacheBody,
                   cacheHdr, mediaLink, symlinkIO, runVars,
                   cacheMtime, pageCache>>

\* downloadFile: the callback of fs.writeFile(path, content): the file is pushed to
\* optimizationQueue, then downloadFileAndCache starts fs.symlink
WriteBodyDone(i) ==
    /\ Alive
    /\ i \in 1..Len(dlTasks) /\ dlTasks[i].st = "writeBody"
    /\ cacheBody' = [cacheBody EXCEPT ![dlTasks[i].base] = dlTasks[i].content]
    /\ cacheMtime' = [cacheMtime EXCEPT ![dlTasks[i].base].body = TRUE]
    /\ optTasks' = Append(optTasks, [path |-> dlTasks[i].base, size |-> dlTasks[i].content,
                                     st |-> "queued", ran |-> FALSE])
    /\ dlTasks' = [dlTasks EXCEPT ![i].st = "symlink"]
    /\ UNCHANGED <<drain, redisQ, mediaStore, cachedToCheck, cacheHdr, mediaLink,
                   symlinkIO, runVars, pageCache>>

\* the callback of fs.symlink on the download path: the headers file is written
SymlinkDone(i) ==
    /\ Alive
    /\ i \in 1..Len(dlTasks) /\ dlTasks[i].st = "symlink"
    /\ mediaLink' = [mediaLink EXCEPT ![dlTasks[i].base] = TRUE]
    /\ dlTasks' = [dlTasks EXCEPT ![i].st = "writeHdr", ![i].link = TRUE]
    /\ UNCHANGED <<optTasks, drain, redisQ, mediaStore, cachedToCheck, cacheBody,
                   cacheHdr, symlinkIO, runVars,
                   cacheMtime, pageCache>>

\* the callback of fs.writeFile(cacheHeadersPath, {width}): the task calls back
WriteHdrDone(i) ==
    /\ Alive
    /\ i \in 1..Len(dlTasks) /\ dlTasks[i].st = "writeHdr"
    /\ cacheHdr' = [cacheHdr EXCEPT ![dlTasks[i].base] = dlTasks[i].width]
    /\ cacheMtime' = [cacheMtime EXCEPT ![dlTasks[i].base].hdr = TRUE]
    /\ dlTasks' = [dlTasks EXCEPT ![i] = Signal([@ EXCEPT !.hdr = TRUE], "downloaded")]
    /\ UNCHANGED <<optTasks, drain, redisQ, mediaStore, cachedToCheck, cacheBody,
                   mediaLink, symlinkIO, runVars, pageCache>>

\* optimizationQueue worker: fs.stat of the file is started
OptStart(i) ==
    /\ Alive
    /\ i \in 1..Len(optTasks) /\ OptHead(i)
    /\ Process(Cardinality(OptWorkers), cpuCount * 2)
    /\ optTasks' = [optTasks EXCEPT ![i].st = "stat"]
    /\ UNCHANGED <<dlTasks, drain, redisQ, mediaStore, cachedToCheck, cacheBody,
                   cacheHdr, mediaLink, symlinkIO, runVars,
                   cacheMtime, pageCache>>

\* as SizeUnchanged, without the comparison of the sizes
SizeUnchanged_any(onDisk, recorded) ==
    onDisk # NoFile

\* !error && stats.size == file.size: the file is there with the size recorded
\* when it was pushed
SizeUnchanged(onDisk, recorded) ==
    onDisk # NoFile /\ onDisk = recorded

\* the callback of fs.stat: the command runs only on a file of the recorded size
\* (ran: history, exec(cmd) was called for the task)
OptStat(i) ==
    /\ Alive
    /\ i \in 1..Len(optTasks) /\ optTasks[i].st = "stat"
    /\ IF SizeUnchanged(cacheBody[optTasks[i].path], optTasks[i].size)
       THEN optTasks' = [optTasks EXCEPT ![i].st = "exec", ![i].ran = TRUE]
       ELSE optTasks' = [optTasks EXCEPT ![i].st = "done"]
    /\ UNCHANGED <<dlTasks, drain, redisQ, mediaStore, cachedToCheck, cacheBody,
                   cacheHdr, mediaLink, symlinkIO, runVars,
                   cacheMtime, pageCache>>

\* the final callback of async.retry(5, exec(cmd)): optimized, skipped or failed,
\* the task calls finished() and the file keeps the size it had
OptExec(i) ==
    /\ Alive
    /\ i \in 1..Len(optTasks) /\ optTasks[i].st = "exec"
    /\ optTasks' = [optTasks EXCEPT ![i].st = "done"]
    /\ UNCHANGED <<dlTasks, drain, redisQ, mediaStore, cachedToCheck, cacheBody,
                   cacheHdr, mediaLink, symlinkIO, runVars,
                   cacheMtime, pageCache>>

\* saveArticles: the final callback of eachLimit; the series calls
\* drainDownloadFileQueue, which arms its one-second timer
SaveArticlesDone ==
    /\ Alive /\ phase = "saveArticles"
    /\ phase' = "drainDownloadFileQueue"
    /\ drain' = "poll"
    /\ UNCHANGED <<dumps, resume, zimExists, writeHtmlRedirects, skipCacheCleaning,
                   keepHtmlArg, keepHtml, nopic, nozim, running, lastError,
                   dumpIdx, exitCode, dbDeleted, mediaIds, trace, failedSteps>>
    /\ UNCHANGED <<dlTasks, optTasks, redisQ, mediaStore, cachedToCheck, cacheBody,
                   cacheHdr, mediaLink, symlinkIO,
                   cacheMtime, pageCache>>

\* drainDownloadFileQueue / drainOptimizationQueue: the timer fires with the queue
\* idle: doWhilst ends, the drain handler is set and the empty item is pushed
DrainPoll ==
    /\ Alive /\ drain = "poll"
    /\ \/ phase = "drainDownloadFileQueue" /\ DlIdle
       \/ phase = "drainOptimizationQueue" /\ OptIdle
    /\ drain' = "sentinel"
    /\ UNCHANGED <<dlTasks, optTasks, redisQ, mediaStore, cachedToCheck, cacheBody,
                   cacheHdr, mediaLink, symlinkIO, runVars,
                   cacheMtime, pageCache>>

\* the worker finishes the empty item at once; the queue is empty, its drain
\* handler calls finished() and the series calls the next phase
DrainSentinel ==
    /\ Alive /\ drain = "sentinel"
    /\ phase \in {"drainDownloadFileQueue", "drainOptimizationQueue"}
    /\ IF phase = "drainDownloadFileQueue" THEN DlIdle ELSE OptIdle
    /\ phase' = (IF phase = "drainDownloadFileQueue"
                 THEN "drainOptimizationQueue" ELSE "buildZIM")
    /\ drain' = "poll"
    /\ UNCHANGED <<dumps, resume, zimExists, writeHtmlRedirects, skipCacheCleaning,
                   keepHtmlArg, keepHtml, nopic, nozim, running, lastError,
                   dumpIdx, exitCode, dbDeleted, mediaIds, trace, failedSteps>>
    /\ UNCHANGED <<dlTasks, optTasks, redisQ, mediaStore, cachedToCheck, cacheBody,
                   cacheHdr, mediaLink, symlinkIO,
                   cacheMtime, pageCache>>

\* the end of the run with cache cleaning: endProcess and the callbacks of the
\* series leave the cache alone, then find removes every file of the cache
\* directory that is not newer than the ref file
cleanCacheSweep ==
    /\ Alive /\ phase = "buildZIM" /\ ~skipCacheCleaning
    /\ phase' = "cleanCache"
    /\ cacheBody' = [b \in Bases |-> IF cacheMtime[b].body THEN cacheBody[b] ELSE NoFile]
    /\ cacheHdr' = [b \in Bases |-> IF cacheMtime[b].hdr THEN cacheHdr[b] ELSE NoFile]
    /\ pageCache' = [t \in Titles |->
                        [pageCache[t] EXCEPT
                            !.body = IF pageCache[t].mbody THEN @ ELSE "none",
                            !.hdr = IF pageCache[t].mhdr THEN @ ELSE "none"]]
    /\ UNCHANGED <<dlTasks, optTasks, drain, redisQ, mediaStore, cachedToCheck,
                   cacheMtime, mediaLink, symlinkIO, exitCode, phaseOnly>>

NextMedia ==
    \/ \E b \in Bases, w \in Widths : PushMedia(b, w)
    \/ \E i \in 1..MaxRequests : DlStart(i)
    \/ \E error \in BOOLEAN : HgetReply(error)
    \/ \E error \in BOOLEAN : HsetReply(error)
    \/ \E error \in BOOLEAN : CheckDbReply(error)
    \/ \E i \in 1..MaxRequests : HitSymlinkDone(i)
    \/ \E i \in 1..MaxRequests : StatDone(i)
    \/ \E i \in 1..MaxRequests : HttpFail(i)
    \/ \E i \in 1..MaxRequests : HttpOk(i)
    \/ \E i \in 1..MaxRequests : WriteBodyDone(i)
    \/ \E i \in 1..MaxRequests : SymlinkDone(i)
    \/ \E i \in 1..MaxRequests : WriteHdrDone(i)
    \/ \E i \in 1..MaxRequests : OptStart(i)
    \/ \E i \in 1..MaxRequests : OptStat(i)
    \/ \E i \in 1..MaxRequests : OptExec(i)
    \/ SaveArticlesDone
    \/ DrainPoll
    \/ DrainSentinel
    \/ cleanCacheSweep

(***************************************************************************)
(* PART 3: title enumeration, redirects and saveArticles of one variant    *)
(***************************************************************************)
\* the byte ceiling of getArticleBase
MaxFilenameBytes == 250

VARIABLES
    wiki,           \* the wiki: title -> itself (an article), the title it
                    \* redirects to, or NoTitle (no such page)
    articleIds,     \* the titles of the article-id map
    redirects,      \* redisRedirectsDatabase: source title -> target (NoTitle: none)
    lookups,        \* redirectQueue: title -> "none", "queued", "http", "hmset", "done"
    htmlRedir,      \* saveHtmlRedirects: source -> "none", "todo", "hget", "writing", "done"
    art,            \* saveArticles: title -> "none", "todo", "fetching", "writing",
                    \*                        "saved", "dropped", "thrown"
    artBody,        \* what the fetch of the article handed to the callback
    files,          \* htmlRootPath: file name -> "none", "redirect", "article"
    wroteRedirect,  \* history: the file names written by saveHtmlRedirects
    wroteArticle,   \* history: the file names written by saveArticles
    idsAtEnumEnd,   \* history: the article-id map when getArticleIds called back
    droppedLog      \* history: the titles removed from the map with a logged error

artVars == <<wiki, articleIds, redirects, lookups, htmlRedir, art, artBody, files,
             wroteRedirect, wroteArticle, idsAtEnumEnd, droppedLog>>

\* articleId.replace(/\//g, '_')
ReplaceSlash(t) == [i \in 1..Len(t) |-> IF t[i] = "/" THEN "_" ELSE t[i]]

\* getArticleBase (escape not set, as getArticlePath calls it): '/' becomes '_',
\* the name is cut to 250 bytes, '.html' is added
RECURSIVE CutTo(_, _)
CutTo(name, n) == IF Len(name) > n THEN CutTo(SubSeq(name, 1, Len(name) - 1), n) ELSE name

getArticleBase(articleId) ==
    <<CutTo(ReplaceSlash(articleId), MaxFilenameBytes), ".html">>

\* the files getArticlePath can name under htmlRootPath
FileNames == {getArticleBase(t) : t \in Titles}

\* saveArticle, the callback of the fetch: "throw" an exception nobody catches
\* (JSON.parse of an empty body, json['lead'] of null, json['lead']['sections']
\* without lead), "drop" the else branch of if (json), "write" writeArticle.
ParseOutcome(body) ==
    CASE body = "ok" -> "write"
      [] body = "falsy" -> "drop"
      [] OTHER -> "throw"

\* as eachLimitDone, the final callback called while items are still running
eachLimitDone_early(st) ==
    TRUE

\* async.eachLimit calls its final callback when every item it took has called
\* finished()
eachLimitDone(st) ==
    \A t \in Titles : st[t] \in {"none", "done", "saved", "dropped"}

InitArticles ==
    /\ wiki \in {w \in [Titles -> Titles \cup {NoTitle}] :
                    \A t \in Titles : w[t] \notin {NoTitle, t} => w[w[t]] = w[t]}
    /\ articleIds = {}
    /\ redirects = [t \in Titles |-> NoTitle]
    /\ lookups = [t \in Titles |-> "none"]
    /\ htmlRedir = [t \in Titles |-> "none"]
    /\ art = [t \in Titles |-> "none"]
    /\ artBody = [t \in Titles |-> "none"]
    /\ files = [f \in FileNames |-> "none"]
    /\ wroteRedirect = {}
    /\ wroteArticle = {}
    /\ idsAtEnumEnd = {}
    /\ droppedLog = {}
    /\ pageCache \in [Titles -> PageEntries]

IdleArticles ==
    /\ wiki = [t \in Titles |-> NoTitle]
    /\ articleIds = {}
    /\ redirects = [t \in Titles |-> NoTitle]
    /\ lookups = [t \in Titles |-> "none"]
    /\ htmlRedir = [t \in Titles |-> "none"]
    /\ art = [t \in Titles |-> "none"]
    /\ artBody = [t \in Titles |-> "none"]
    /\ files = [f \in FileNames |-> "none"]
    /\ wroteRedirect = {}
    /\ wroteArticle = {}
    /\ idsAtEnumEnd = {}
    /\ droppedLog = {}
    /\ pageCache = [t \in Titles |-> NoPage]

\* the run at the call of getArticleIds
InitArticlesRun ==
    /\ dumps = <<[nopic |-> FALSE, nozim |-> FALSE]>>
    /\ resume = FALSE
    /\ zimExists = {}
    /\ writeHtmlRedirects \in BOOLEAN
    /\ skipCacheCleaning = FALSE
    /\ keepHtmlArg = FALSE
    /\ keepHtml = FALSE
    /\ nopic = FALSE
    /\ nozim = FALSE
    /\ phase = "getArticleIds"
    /\ running = TRUE
    /\ lastError = FALSE
    /\ dumpIdx = 0
    /\ exitCode = -1
    /\ dbDeleted = FALSE
    /\ mediaIds = FALSE
    /\ trace = <<>>
    /\ failedSteps = {}

\* getArticleIdsForNamespace / parseJson: allpages (non-redirects) answers with a
\* page: its title enters the article-id map and goes to redirectQueue
parseJson(t) ==
    /\ Alive /\ phase = "getArticleIds" /\ drain = "poll"
    /\ wiki[t] = t /\ t \notin articleIds
    /\ articleIds' = articleIds \cup {t}
    /\ lookups' = [lookups EXCEPT ![t] = "queued"]
    /\ UNCHANGED <<redirects, htmlRedir, art, artBody, files, wroteRedirect,
                   wroteArticle, idsAtEnumEnd, droppedLog, wiki, runVars, mediaVars>>

\* redirectQueue worker: the backlinks (redirects only) of the title are asked for
redirectQueueStart(t) ==
    /\ Alive
    /\ lookups[t] = "queued"
    /\ Process(Cardinality({u \in Titles : lookups[u] \in {"http", "hmset"}}), speed * 3)
    /\ lookups' = [lookups EXCEPT ![t] = "http"]
    /\ UNCHANGED <<articleIds, redirects, htmlRedir, art, artBody, files, wroteRedirect,
                   wroteArticle, idsAtEnumEnd, droppedLog, wiki, runVars, mediaVars>>

\* the sources the wiki lists as redirects to t
Backlinks(t) == {u \in Titles : u # t /\ wiki[u] = t}

\* the callback of the backlinks request: hmset of the redirects found, or finished()
redirectQueueReply(t) ==
    /\ Alive
    /\ lookups[t] = "http"
    /\ IF Backlinks(t) # {}
       THEN /\ redisQ' = Append(redisQ, [t |-> t, op |-> "hmsetR"])
            /\ lookups' = [lookups EXCEPT ![t] = "hmset"]
       ELSE /\ redisQ' = redisQ
            /\ lookups' = [lookups EXCEPT ![t] = "done"]
    /\ UNCHANGED <<articleIds, redirects, htmlRedir, art, artBody, files, wroteRedirect,
                   wroteArticle, idsAtEnumEnd, droppedLog, wiki, runVars>>
    /\ UNCHANGED <<dlTasks, optTasks, drain, mediaStore, cachedToCheck, cacheBody,
                   cacheHdr, mediaLink, symlinkIO,
                   cacheMtime, pageCache>>

\* the answer to hmset: redirects[src] = t for each source, the lookup calls finished()
HmsetReply(error) ==
    /\ Alive
    /\ Len(redisQ) > 0 /\ redisQ[1].op = "hmsetR"
    /\ LET t == redisQ[1].t
       IN IF error
          THEN exitCode' = 1 /\ UNCHANGED <<redirects, lookups>>
          ELSE /\ redirects' = [u \in Titles |->
                                   IF u \in Backlinks(t) THEN t ELSE redirects[u]]
               /\ lookups' = [lookups EXCEPT ![t] = "done"]
               /\ exitCode' = exitCode
    /\ redisQ' = Tail(redisQ)
    /\ UNCHANGED <<articleIds, htmlRedir, art, artBody, files, wroteRedirect,
                   wroteArticle, idsAtEnumEnd, droppedLog, wiki, phase, phaseOnly>>
    /\ UNCHANGED <<dlTasks, optTasks, drain, mediaStore, cachedToCheck, cacheBody,
                   cacheHdr, mediaLink, symlinkIO,
                   cacheMtime, pageCache>>

\* getArticleIdsForNamespaces: every namespace is listed; drainRedirectQueue sets
\* the drain handler and pushes the empty item
drainRedirectQueue ==
    /\ Alive /\ phase = "getArticleIds" /\ drain = "poll"
    /\ \A t \in Titles : wiki[t] = t => t \in articleIds
    /\ drain' = "sentinel"
    /\ UNCHANGED <<dlTasks, optTasks, redisQ, mediaStore, cachedToCheck, cacheBody,
                   cacheHdr, mediaLink, symlinkIO, artVars, runVars,
                   cacheMtime, pageCache>>

\* redirectQueue is empty and its last worker has ended: the drain handler calls
\* finished(). cacheRedirects and the first steps of the variant follow; they leave
\* the map, the stores and the article files alone. Then saveHtmlRedirects sends
\* hkeys, or saveArticles takes Object.keys(articleIds).
getArticleIdsDone ==
    /\ Alive /\ phase = "getArticleIds" /\ drain = "sentinel"
    /\ \A t \in Titles : lookups[t] \in {"none", "done"}
    /\ drain' = "poll"
    /\ idsAtEnumEnd' = articleIds
    /\ IF writeHtmlRedirects
       THEN /\ phase' = "saveHtmlRedirects"
            /\ redisQ' = Append(redisQ, [t |-> NoTitle, op |-> "hkeysR"])
            /\ art' = art
       ELSE /\ phase' = "saveArticles"
            /\ redisQ' = redisQ
            /\ art' = [t \in Titles |-> IF t \in articleIds THEN "todo" ELSE "none"]
    /\ UNCHANGED <<dlTasks, optTasks, mediaStore, cachedToCheck, cacheBody,
                   cacheHdr, mediaLink, symlinkIO,
                   cacheMtime, pageCache>>
    /\ UNCHANGED <<wiki, articleIds, redirects, lookups, htmlRedir, artBody, files,
                   wroteRedirect, wroteArticle, droppedLog, exitCode, phaseOnly>>

\* saveHtmlRedirects: the answer to hkeys; eachLimit takes the keys
HkeysReply(error) ==
    /\ Alive
    /\ Len(redisQ) > 0 /\ redisQ[1].op = "hkeysR"
    /\ redisQ' = Tail(redisQ)
    /\ IF error
       THEN exitCode' = 1 /\ htmlRedir' = htmlRedir
       ELSE /\ exitCode' = exitCode
            /\ htmlRedir' = [t \in Titles |->
                                IF redirects[t] # NoTitle THEN "todo" ELSE "none"]
    /\ UNCHANGED <<dlTasks, optTasks, drain, mediaStore, cachedToCheck, cacheBody,
                   cacheHdr, mediaLink, symlinkIO,
                   cacheMtime, pageCache>>
    /\ UNCHANGED <<wiki, articleIds, redirects, lookups, art, artBody, files,
                   wroteRedirect, wroteArticle, idsAtEnumEnd, droppedLog, phase,
                   phaseOnly>>

\* saveHtmlRedirect: hget of the target is sent
saveHtmlRedirect(t) ==
    /\ Alive /\ phase = "saveHtmlRedirects"
    /\ htmlRedir[t] = "todo"
    /\ Process(Cardinality({u \in Titles : htmlRedir[u] \in {"hget", "writing"}}), speed)
    /\ htmlRedir' = [htmlRedir EXCEPT ![t] = "hget"]
    /\ redisQ' = Append(redisQ, [t |-> t, op |-> "hgetR"])
    /\ UNCHANGED <<dlTasks, optTasks, drain, mediaStore, cachedToCheck, cacheBody,
                   cacheHdr, mediaLink, symlinkIO,
                   cacheMtime, pageCache>>
    /\ UNCHANGED <<wiki, articleIds, redirects, lookups, art, artBody, files,
                   wroteRedirect, wroteArticle, idsAtEnumEnd, droppedLog, runVars>>

\* the answer to hget: fs.writeFile(getArticlePath(redirectId), ..) is started
HgetRedirectReply(error) ==
    /\ Alive
    /\ Len(redisQ) > 0 /\ redisQ[1].op = "hgetR"
    /\ redisQ' = Tail(redisQ)
    /\ IF error
       THEN exitCode' = 1 /\ htmlRedir' = htmlRedir
       ELSE /\ exitCode' = exitCode
            /\ htmlRedir' = [htmlRedir EXCEPT ![redisQ[1].t] =
                        IF redirects[redisQ[1].t] # NoTitle THEN "writing" ELSE "done"]
    /\ UNCHANGED <<dlTasks, optTasks, drain, mediaStore, cachedToCheck, cacheBody,
                   cacheHdr, mediaLink, symlinkIO,
                   cacheMtime, pageCache>>
    /\ UNCHANGED <<wiki, articleIds, redirects, lookups, art, artBody, files,
                   wroteRedirect, wroteArticle, idsAtEnumEnd, droppedLog, phase,
                   phaseOnly>>

\* the callback of fs.writeFile: the redirect file is on disk
htmlRedirectWritten(t) ==
    /\ Alive
    /\ htmlRedir[t] = "writing"
    /\ htmlRedir' = [htmlRedir EXCEPT ![t] = "done"]
    /\ files' = [files EXCEPT ![getArticleBase(t)] = "redirect"]
    /\ wroteRedirect' = wroteRedirect \cup {getArticleBase(t)}
    /\ UNCHANGED <<wiki, articleIds, redirects, lookups, art, artBody, wroteArticle,
                   idsAtEnumEnd, droppedLog, runVars, mediaVars>>

\* saveHtmlRedirects: the final callback of eachLimit; the series calls
\* saveArticles, which takes Object.keys(articleIds)
saveHtmlRedirectsDone ==
    /\ Alive /\ phase = "saveHtmlRedirects"
    /\ Len(redisQ) = 0
    /\ eachLimitDone(htmlRedir)
    /\ phase' = "saveArticles"
    /\ art' = [t \in Titles |-> IF t \in articleIds THEN "todo" ELSE "none"]
    /\ UNCHANGED <<wiki, articleIds, redirects, lookups, htmlRedir, artBody, files,
                   wroteRedirect, wroteArticle, idsAtEnumEnd, droppedLog, exitCode,
                   phaseOnly, mediaVars>>

\* the states of an article that eachLimit counts as running
ArtRunning == {"fetching", "caching", "fetched", "hit", "writing"}

\* the media part without the page cache
mediaOnly == <<dlTasks, optTasks, drain, redisQ, mediaStore, cachedToCheck,
               cacheBody, cacheHdr, cacheMtime, mediaLink, symlinkIO>>

\* saveArticle: eachLimit starts the article, downloadContentAndCache reads the
\* two cache files. On a hit touch(cachePath, cacheHeadersPath) sets the mtime
\* of its first argument and the cached body is handed over; on a miss
\* downloadContent is called.
saveArticle(t) ==
    /\ Alive /\ phase = "saveArticles"
    /\ art[t] = "todo"
    /\ Process(Cardinality({u \in Titles : art[u] \in ArtRunning}), speed)
    /\ IF PageCacheHit(pageCache[t].body, pageCache[t].hdr)
       THEN /\ art' = [art EXCEPT ![t] = "hit"]
            /\ artBody' = [artBody EXCEPT ![t] = pageCache[t].body]
            /\ pageCache' = [pageCache EXCEPT ![t].mbody = TRUE]
       ELSE /\ art' = [art EXCEPT ![t] = "fetching"]
            /\ UNCHANGED <<artBody, pageCache>>
    /\ UNCHANGED <<wiki, articleIds, redirects, lookups, htmlRedir, files,
                   wroteRedirect, wroteArticle, idsAtEnumEnd, droppedLog, runVars,
                   mediaOnly>>

\* downloadContent hands over the body ("empty" when every attempt has failed)
pageFetched(t, body) ==
    /\ Alive
    /\ art[t] = "fetching"
    /\ art' = [art EXCEPT ![t] = "caching"]
    /\ artBody' = [artBody EXCEPT ![t] = body]
    /\ UNCHANGED <<wiki, articleIds, redirects, lookups, htmlRedir, files,
                   wroteRedirect, wroteArticle, idsAtEnumEnd, droppedLog, runVars,
                   mediaVars>>

\* the two fs.writeFile of the miss path: JSON.stringify(responseHeaders) into
\* the .h file (responseHeaders is {} after an exhausted fetch, and the file
\* parses), the content into the body file
pageCached(t) ==
    /\ Alive
    /\ art[t] = "caching"
    /\ art' = [art EXCEPT ![t] = "fetched"]
    /\ pageCache' = [pageCache EXCEPT ![t] =
                        [body |-> artBody[t],
                         hdr |-> "ok",
                         mbody |-> TRUE, mhdr |-> TRUE]]
    /\ UNCHANGED <<wiki, articleIds, redirects, lookups, htmlRedir, artBody, files,
                   wroteRedirect, wroteArticle, idsAtEnumEnd, droppedLog, runVars,
                   mediaOnly>>

\* saveArticle, the callback of downloadContentAndCache with the body handed
\* over: JSON.parse, the test of lead, transformSections and writeArticle, or the
\* removal of the title from the map. An exception thrown after a fetch reaches
\* the uncaughtException handler. An exception thrown after a hit is caught by
\* the try of the headers read, which calls finished() a second time: async
\* either throws "Callback was already called" (again = FALSE, exit 42) or
\* runs the final callback again with the error, which downloads the page.
saveArticleCallback(t, again) ==
    /\ Alive
    /\ art[t] \in {"fetched", "hit"}
    /\ LET o == ParseOutcome(artBody[t])
           refetch == o = "throw" /\ art[t] = "hit" /\ again
       IN /\ art' = [art EXCEPT ![t] = CASE o = "write" -> "writing"
                                         [] o = "drop" -> "dropped"
                                         [] refetch -> "fetching"
                                         [] OTHER -> "thrown"]
          /\ articleIds' = (IF o = "drop" THEN articleIds \ {t} ELSE articleIds)
          /\ droppedLog' = (IF o = "drop" THEN droppedLog \cup {t} ELSE droppedLog)
          /\ exitCode' = (IF o = "throw" /\ ~refetch THEN 42 ELSE exitCode)
    /\ UNCHANGED <<wiki, redirects, lookups, htmlRedir, artBody, files, wroteRedirect,
                   wroteArticle, idsAtEnumEnd, phase, phaseOnly, mediaVars>>

\* writeArticle: the callback of fs.writeFile(getArticlePath(articleId), ..):
\* the article calls finished(), or the process exits on a write error
articleWritten(t, ok) ==
    /\ Alive
    /\ art[t] = "writing"
    /\ IF ok
       THEN /\ art' = [art EXCEPT ![t] = "saved"]
            /\ files' = [files EXCEPT ![getArticleBase(t)] = "article"]
            /\ wroteArticle' = wroteArticle \cup {getArticleBase(t)}
            /\ exitCode' = exitCode
       ELSE /\ exitCode' = 1
            /\ UNCHANGED <<art, files, wroteArticle>>
    /\ UNCHANGED <<wiki, articleIds, redirects, lookups, htmlRedir, artBody,
                   wroteRedirect, idsAtEnumEnd, droppedLog, phase, phaseOnly,
                   mediaVars>>

\* saveArticles: the final callback of eachLimit calls finished()
saveArticlesDone ==
    /\ Alive /\ phase = "saveArticles"
    /\ eachLimitDone(art)
    /\ phase' = "drainDownloadFileQueue"
    /\ UNCHANGED <<artVars, exitCode, phaseOnly, mediaVars>>

NextArticles ==
    \/ \E t \in Titles : parseJson(t)
    \/ \E t \in Titles : redirectQueueStart(t)
    \/ \E t \in Titles : redirectQueueReply(t)
    \/ \E error \in BOOLEAN : HmsetReply(error)
    \/ drainRedirectQueue
    \/ getArticleIdsDone
    \/ \E error \in BOOLEAN : HkeysReply(error)
    \/ \E t \in Titles : saveHtmlRedirect(t)
    \/ \E error \in BOOLEAN : HgetRedirectReply(error)
    \/ \E t \in Titles : htmlRedirectWritten(t)
    \/ saveHtmlRedirectsDone
    \/ \E t \in Titles : saveArticle(t)
    \/ \E t \in Titles, body \in BodyKinds : pageFetched(t, body)
    \/ \E t \in Titles : pageCached(t)
    \/ \E t \in Titles, again \in BOOLEAN : saveArticleCallback(t, again)
    \/ \E t \in Titles, ok \in BOOLEAN : articleWritten(t, ok)
    \/ saveArticlesDone
    \/ DrainPoll /\ UNCHANGED artVars
    \/ DrainSentinel /\ UNCHANGED artVars
    \/ cleanCacheSweep /\ UNCHANGED artVars

(***************************************************************************)
(* Part 4: the four work queues side by side.  Every item is reduced to    *)
(* its wait in the queue and its run in a worker.                          *)
(***************************************************************************)
VARIABLES
    waiting,        \* per queue: the items pushed and not yet started
    workers         \* per queue: the items started whose callback has not been called

queueVars == <<waiting, workers>>

Queues == {"saveArticles", "redirectQueue", "downloadFileQueue", "optimizationQueue"}

\* the limit of eachLimit in saveArticles and the concurrency of the three
\* async.queue
Concurrency(q) ==
    CASE q = "saveArticles" -> speed
      [] q = "redirectQueue" -> speed * 3
      [] q = "downloadFileQueue" -> speed * 5
      [] q = "optimizationQueue" -> cpuCount * 2

\* the items a queue holds at most in the model: one more than its workers
MaxItems(q) == Concurrency(q) + 1

IdleQueues ==
    /\ waiting = [q \in Queues |-> 0]
    /\ workers = [q \in Queues |-> 0]

\* queue.push(item), or one more key in the array handed to eachLimit
QueuePush(q) ==
    /\ waiting[q] + workers[q] < MaxItems(q)
    /\ waiting' = [waiting EXCEPT ![q] = @ + 1]
    /\ UNCHANGED workers

\* process(): the next item is shifted and its worker is called
QueueProcess(q) ==
    /\ waiting[q] > 0
    /\ Process(workers[q], Concurrency(q))
    /\ waiting' = [waiting EXCEPT ![q] = @ - 1]
    /\ workers' = [workers EXCEPT ![q] = @ + 1]

\* the worker calls finished()
QueueFinished(q) ==
    /\ workers[q] > 0
    /\ workers' = [workers EXCEPT ![q] = @ - 1]
    /\ UNCHANGED waiting

NextQueues ==
    \/ \E q \in Queues : QueuePush(q)
    \/ \E q \in Queues : QueueProcess(q)
    \/ \E q \in Queues : QueueFinished(q)

(***************************************************************************)
(* Part 5: downloadContent, the attempts of async.retry.                   *)
(***************************************************************************)
MaxCalls == 2
\* the timers of finished() that one call may have pending (one, as long as
\* callFinished passes the first event only)
MaxTimers == 2
Calls == 1..MaxCalls

\* async.retry(3, ..)
RetryTimes == 3

\* argv.requestTimeout, or 60 when the option is not given
DefaultRequestTimeout == 60
RequestTimeouts == {DefaultRequestTimeout, 90}

\* what an attempt can meet: a 200 answer read to its end (plain, or unzipped),
\* gunzip or inflate failing, another status code, an error of the response,
\* an error of the request, the timeout of the socket
Events == {"end200", "zlibError", "statusCode", "responseError", "requestError",
           "socketTimeout"}

VARIABLES
    requestTimeout, \* the option, in seconds
    calls           \* per call of downloadContent:
                    \*   st             "idle", "request" (an attempt is running),
                    \*                  "timer" (setTimeout(finished, ..) is pending), "done"
                    \*   retryCount     the counter of the call
                    \*   tried          the attempts async.retry has started
                    \*   calledFinished of the running attempt
                    \*   delay          of the pending setTimeout, in ms
                    \*   message, data  the arguments of the pending finished(): is there
                    \*                  an error, is there a body
                    \*   error, body    what the final callback got
                    \*   late           an event reached callFinished after the first one
                    \*   timers         the pending setTimeout(finished, ..)
                    \*   callbacks      history: the calls of callback(..)
                    \*   attempts       history: per attempt the timeout set with
                    \*                  request.setTimeout, in ms, how it ended
                    \*                  ("running", "ok", "failed"), and the calls
                    \*                  of its finished()

contentVars == <<requestTimeout, calls>>

\* as SetTimeout, the same timeout for every attempt
SetTimeout_flat(timeout, count) ==
    timeout * 1000

\* request.setTimeout(requestTimeout * 1000 * retryCount)
SetTimeout(timeout, count) ==
    timeout * 1000 * count

\* callFinished(timeout, message, data): the first argument, by event
Delay(ev, count) ==
    IF ev = "requestError" \/ ev = "socketTimeout" THEN 10000 * count ELSE 0

\* callFinished(timeout, message, data): is message set
Message(ev) == ev # "end200"

\* async.retry: the task is called again when it answered an error and fewer
\* than RetryTimes attempts were made
RetryAgain(message, tried) ==
    message /\ tried < RetryTimes

NoCall == [st |-> "idle", retryCount |-> 0, tried |-> 0, calledFinished |-> FALSE,
           delay |-> 0, message |-> FALSE, data |-> FALSE, error |-> FALSE,
           body |-> "none", late |-> FALSE, timers |-> 0, callbacks |-> 0,
           attempts |-> <<>>]

InitContent ==
    /\ requestTimeout \in RequestTimeouts
    /\ calls = [c \in Calls |-> NoCall]

IdleContent ==
    /\ requestTimeout = DefaultRequestTimeout
    /\ calls = [c \in Calls |-> NoCall]

\* the task of async.retry: retryCount++, the request is sent with its timeout
Attempt(c) ==
    [c EXCEPT !.st = "request",
              !.retryCount = @ + 1,
              !.tried = @ + 1,
              !.calledFinished = FALSE,
              !.attempts = Append(@, [timeout |-> SetTimeout(requestTimeout,
                                                             c.retryCount + 1),
                                      res |-> "running", fin |-> 0])]

\* downloadContent(url, callback): async.retry calls the task a first time
downloadContent(c) ==
    /\ calls[c].st = "idle"
    /\ calls' = [calls EXCEPT ![c] = Attempt(calls[c])]
    /\ UNCHANGED requestTimeout

\* as FirstCall, without the flag
FirstCall_always(called) ==
    TRUE

\* if (!calledFinished)
FirstCall(called) ==
    ~called

\* an event of the request or of its response calls callFinished; the first
\* call of an attempt sets the timer of finished(message, data), the later
\* ones do nothing
callFinished(c, ev) ==
    /\ calls[c].st \in {"request", "timer"}
    /\ calls[c].timers < MaxTimers
    /\ IF FirstCall(calls[c].calledFinished)
       THEN calls' = [calls EXCEPT
                ![c].calledFinished = TRUE,
                ![c].st = "timer",
                ![c].timers = @ + 1,
                ![c].delay = Delay(ev, calls[c].retryCount),
                ![c].message = Message(ev),
                ![c].data = (ev = "end200"),
                ![c].attempts[Len(calls[c].attempts)].res =
                    IF Message(ev) THEN "failed" ELSE "ok"]
       ELSE calls' = [calls EXCEPT ![c].late = TRUE]
    /\ UNCHANGED requestTimeout

\* the timer calls finished(message, data): async.retry calls the task again
\* or the final callback, which hands over data || new Buffer(0)
finishedAttempt(c) ==
    /\ calls[c].timers > 0
    /\ LET fired == [calls[c] EXCEPT !.timers = @ - 1,
                                     !.attempts[Len(calls[c].attempts)].fin = @ + 1]
       IN  IF calls[c].st # "done" /\ RetryAgain(calls[c].message, calls[c].tried)
           THEN calls' = [calls EXCEPT ![c] = Attempt(fired)]
           ELSE calls' = [calls EXCEPT ![c] =
                    [fired EXCEPT !.st = "done",
                                  !.callbacks = @ + 1,
                                  !.error = calls[c].message,
                                  !.body = IF calls[c].data THEN "body" ELSE "empty"]]
    /\ UNCHANGED requestTimeout

NextContent ==
    \/ \E c \in Calls : downloadContent(c)
    \/ \E c \in Calls, ev \in Events : callFinished(c, ev)
    \/ \E c \in Calls : finishedAttempt(c)

(***************************************************************************)
(* Part 6: transformSection, the rewrite of the DOM of one section.  The   *)
(* document is the sequence of its elements in document order; none of    *)
(* them carries an id or is nested in another element of the sequence.    *)
(***************************************************************************)
MaxNodes == 3

cssClassBlackListIfNoLink == <<"mainarticle", "seealso", "dablink", "rellink", "hatnote">>

cssClassBlackList ==
    <<"noprint", "metadata", "ambox", "stub", "topicon", "magnify", "navbar",
      "mwe-math-mathml-inline">>

\* the elements of the model:
\*   tag   "img", "map", "div" or "p"
\*   math  of an img: its class contains mwe-math-fallback-image-inline or its
\*         typeof is mw:Extension/math
\*   src   of an img: "none" (no src attribute), "media" (a media URL), "local"
\*         (rewritten to the local file)
\*   cls   the class of a div or p, "" for none
\*   link  the element has an <a> descendant
Node(tag, math, src, cls, link) ==
    [tag |-> tag, math |-> math, src |-> src, cls |-> cls, link |-> link]
Nodes ==
    {Node("img", FALSE, "media", "", FALSE), Node("img", TRUE, "media", "", FALSE),
     Node("img", TRUE, "none", "", FALSE), Node("map", FALSE, "none", "", FALSE),
     Node("div", FALSE, "none", "noprint", FALSE),
     Node("div", FALSE, "none", "navbar", FALSE),
     Node("div", FALSE, "none", "hatnote", FALSE),
     Node("div", FALSE, "none", "hatnote", TRUE),
     Node("p", FALSE, "none", "", FALSE)}

Documents == UNION {[1..n -> Nodes] : n \in 0..MaxNodes}

\* the media URL of the img elements of the model
ImgBase == "A.png"
ImgWidth == 120

VARIABLES
    section,        \* history: the document as domino.createDocument built it
    dom,            \* the document of the section
    returned,       \* transformSection has returned
    innerHTML       \* what it returned: the elements left, in document order

sectionVars == <<section, dom, returned, innerHTML>>

\* node.parentNode.removeChild(node), for the element at position p
deleteNode(doc, p) == SubSeq(doc, 1, p - 1) \o SubSeq(doc, p + 1, Len(doc))

\* dom.getElementsByTagName(tag): the positions of the elements of the live
\* collection, recomputed from the document at every access
getElementsByTagName(doc, tag) == {p \in 1..Len(doc) : doc[p].tag = tag}

\* dom.getElementsByClassName(classname), likewise
getElementsByClassName(doc, classname) == {p \in 1..Len(doc) : doc[p].cls = classname}

\* collection[i]: the position of the element of index i (from 0)
Item(collection, i) ==
    CHOOSE p \in collection : Cardinality({q \in collection : q < p}) = i

\* treatMediaElementsForSection, the test of the img: it is kept when pictures
\* are wanted or it is a math image, and it has a src
KeepImg(img, np) == (~np \/ img.math) /\ img.src # "none"

\* treatMediaElementsForSection: for (let i = 0; i < imgs.length; i++) over the
\* live collection. A kept img gets its local src and its URL is pushed to
\* downloadFileQueue (once per section: imgSrcCache), another img is deleted.
\* Answers the document and whether a URL was pushed.
RECURSIVE treatMediaLoop(_, _, _, _)
treatMediaLoop(doc, pushed, np, i) ==
    LET imgs == getElementsByTagName(doc, "img")
    IN IF i >= Cardinality(imgs)
       THEN [doc |-> doc, pushed |-> pushed]
       ELSE LET p == Item(imgs, i)
            IN IF KeepImg(doc[p], np)
               THEN treatMediaLoop([doc EXCEPT ![p].src = "local"], TRUE, np, i + 1)
               ELSE treatMediaLoop(deleteNode(doc, p), pushed, np, i + 1)

treatMediaElementsForSection(doc, np) == treatMediaLoop(doc, FALSE, np, 0)

\* applyOtherTreatments: for (let i = 0; i < maps.length; i++) deleteNode(maps[i])
RECURSIVE mapLoop(_, _)
mapLoop(doc, i) ==
    LET maps == getElementsByTagName(doc, "map")
    IN IF i >= Cardinality(maps) THEN doc
       ELSE mapLoop(deleteNode(doc, Item(maps, i)), i + 1)

\* applyOtherTreatments: the loop over getElementsByClassName(classname)
RECURSIVE classLoop(_, _, _)
classLoop(doc, classname, i) ==
    LET nodes == getElementsByClassName(doc, classname)
    IN IF i >= Cardinality(nodes) THEN doc
       ELSE classLoop(deleteNode(doc, Item(nodes, i)), classname, i + 1)

\* applyOtherTreatments: cssClassBlackList.map(..), from the class of index k on
RECURSIVE blackListMap(_, _)
blackListMap(doc, k) ==
    IF k > Len(cssClassBlackList) THEN doc
    ELSE blackListMap(classLoop(doc, cssClassBlackList[k], 0), k + 1)

\* applyOtherTreatments: the loop over getElementsByClassName(classname) that
\* deletes nodes[i] when nodes[i].getElementsByTagName('a').length === 0
RECURSIVE ifNoLinkLoop(_, _, _)
ifNoLinkLoop(doc, classname, i) ==
    LET nodes == getElementsByClassName(doc, classname)
    IN IF i >= Cardinality(nodes) THEN doc
       ELSE LET p == Item(nodes, i)
            IN IF ~doc[p].link
               THEN ifNoLinkLoop(deleteNode(doc, p), classname, i + 1)
               ELSE ifNoLinkLoop(doc, classname, i + 1)

\* applyOtherTreatments: cssClassBlackListIfNoLink.map(..), from index k on
RECURSIVE ifNoLinkMap(_, _)
ifNoLinkMap(doc, k) ==
    IF k > Len(cssClassBlackListIfNoLink) THEN doc
    ELSE ifNoLinkMap(ifNoLinkLoop(doc, cssClassBlackListIfNoLink[k], 0), k + 1)

applyOtherTreatments(doc, np) ==
    ifNoLinkMap(blackListMap(IF np THEN mapLoop(doc, 0) ELSE doc, 1), 1)

InitSection ==
    /\ dom \in Documents
    /\ section = dom
    /\ returned = FALSE
    /\ innerHTML = <<>>

IdleSection ==
    /\ dom = <<>>
    /\ section = <<>>
    /\ returned = FALSE
    /\ innerHTML = <<>>

\* the run while saveArticles rewrites a section, with or without pictures
InitSectionRun ==
    /\ nopic \in BOOLEAN
    /\ dumps = <<[nopic |-> nopic, nozim |-> FALSE]>>
    /\ resume = FALSE
    /\ zimExists = {}
    /\ writeHtmlRedirects = FALSE
    /\ skipCacheCleaning = FALSE
    /\ keepHtmlArg = FALSE
    /\ keepHtml = FALSE
    /\ nozim = FALSE
    /\ phase = "saveArticles"
    /\ running = TRUE
    /\ lastError = FALSE
    /\ dumpIdx = 1
    /\ exitCode = -1
    /\ dbDeleted = FALSE
    /\ mediaIds = FALSE
    /\ trace = <<>>
    /\ failedSteps = {}

\* transformSection(dom): treatMediaElementsForSection, rewriteUrls (which has
\* no link to rewrite), applyOtherTreatments, return dom.body.innerHTML
transformSection ==
    /\ Alive /\ phase = "saveArticles"
    /\ ~returned
    /\ LET media == treatMediaElementsForSection(dom, nopic)
           out == applyOtherTreatments(media.doc, nopic)
       IN /\ dom' = out
          /\ innerHTML' = out
          /\ dlTasks' = IF media.pushed
                         THEN Append(dlTasks,
                                     [base |-> ImgBase, width |-> ImgWidth,
                                      st |-> "queued", seen |-> 0, kvErr |-> FALSE,
                                      content |-> NoFile, link |-> FALSE,
                                      hdr |-> FALSE, look |-> "none",
                                      bodySeen |-> NoFile, hdrSeen |-> NoFile])
                         ELSE dlTasks
    /\ returned' = TRUE
    /\ UNCHANGED <<section, optTasks, drain, redisQ, mediaStore, cachedToCheck, cacheBody,
                   cacheHdr, cacheMtime, pageCache, mediaLink, symlinkIO, runVars,
                   artVars, queueVars, contentVars>>

NextSection ==
    transformSection

(***************************************************************************)
(* Part 7: rewriteUrl, the coordinates of a geohack link in degree,        *)
(* minute, second form.  Numbers are kept in arc-seconds (3600 to the      *)
(* degree), so that the divisions by 1, 60 and 3600 stay in the integers.  *)
(***************************************************************************)
\* the numeric pieces of the model and their values
Numeral == [n \in {"0", "30"} |-> IF n = "0" THEN 0 ELSE 30]

\* let factors = [1, 60, 3600], as what an arc-second count is multiplied by
ArcSeconds == <<3600, 60, 1>>

NaN == [nan |-> TRUE, v |-> 0]
Num(n) == [nan |-> FALSE, v |-> n]

\* the params of the links of the model: one to three numeric pieces and the
\* hemisphere letter, for the latitude and for the longitude
DmsPieces == UNION {[1..n -> DOMAIN Numeral] : n \in 1..3}
GeoParams ==
    [lat : DmsPieces, latHemi : {"N", "S"}, lon : DmsPieces, lonHemi : {"E", "W", "O"}]

\* params.toUpperCase().split('_')
Split(prm) == prm.lat \o <<prm.latHemi>> \o prm.lon \o <<prm.lonHemi>>

VARIABLES
    params,         \* the params of the query of the link
    href            \* the href of the link: url "geohack" as parsed, "same" when
                    \* rewriteUrl has left it, or "geo" with the lat and lon
                    \* written into it, in arc-seconds

geoVars == <<params, href>>

\* v / factors[i], in arc-seconds: NaN when v is no number or i is past the
\* three factors
Quotient(v, i) ==
    IF v \in DOMAIN Numeral /\ i < Len(ArcSeconds)
    THEN Num(Numeral[v] * ArcSeconds[i + 1])
    ELSE NaN

Plus(a, b) == IF a.nan \/ b.nan THEN NaN ELSE Num(a.v + b.v)
Times(a, n) == IF a.nan THEN NaN ELSE Num(a.v * n)

\* deg, its for loop from index i on: answers out and the offs it leaves
RECURSIVE degLoop(_, _, _, _, _)
degLoop(pieces, hemiHash, offs, i, out) ==
    IF i < 4 /\ (i + offs) < Len(pieces)
    THEN LET v == pieces[i + offs + 1]
         IN IF v \in DOMAIN hemiHash
            THEN [out |-> out, offs |-> i + 1]
            ELSE degLoop(pieces, hemiHash, offs, i + 1, Plus(out, Quotient(v, i)))
    ELSE [out |-> out, offs |-> offs]

\* deg(hemiHash): 'let hemiSign = hemiHash[v]' inside the loop declares a new
\* variable, so the hemiSign of 'return out * hemiSign' is the one declared
\* before the loop, which stays 1
deg(pieces, hemiHash, offs) ==
    LET hemiSign == 1
        r == degLoop(pieces, hemiHash, offs, 0, Num(0))
    IN [out |-> Times(r.out, hemiSign), offs |-> r.offs]

InitGeo ==
    /\ params \in GeoParams
    /\ href = [url |-> "geohack", lat |-> 0, lon |-> 0]

IdleGeo ==
    /\ params = [lat |-> <<"0">>, latHemi |-> "N", lon |-> <<"0">>, lonHemi |-> "E"]
    /\ href = [url |-> "geohack", lat |-> 0, lon |-> 0]

\* rewriteUrl(linkNode) on a geohack link: lat = deg({N: 1, S: -1}),
\* lon = deg({E: 1, W: -1, O: 1}), and the href is set when both are numbers
rewriteUrl ==
    /\ href.url = "geohack"
    /\ LET pieces == Split(params)
           lat == deg(pieces, [N |-> 1, S |-> -1], 0)
           lon == deg(pieces, [E |-> 1, W |-> -1, O |-> 1], lat.offs)
       IN IF ~lat.out.nan /\ ~lon.out.nan
          THEN href' = [url |-> "geo", lat |-> lat.out.v, lon |-> lon.out.v]
          ELSE href' = [href EXCEPT !.url = "same"]
    /\ UNCHANGED params

NextGeo ==
    rewriteUrl

(***************************************************************************)
(* Part 8: cacheRedirects, the redirect index file.                        *)
(***************************************************************************)
VARIABLES
    redirectsCacheFile, \* the lines of the file, in the order they were appended
    cacheStep,          \* "start", "hkeys" (hkeys is sent), "each" (eachLimit runs),
                        \* "done" (finished() is called)
    cacheRedir,         \* cacheRedirect per key: "none", "todo", "hget", "append", "done"
    overlapped          \* history: two fs.appendFile were running at the same time

cacheVars == <<redirectsCacheFile, cacheStep, cacheRedir, overlapped>>

\* the line of a redirect: 'A', getArticleBase(redirectId), the title,
\* getArticleBase(target, false)
RedirectLine(redirectId, target) ==
    [ns |-> "A", url |-> getArticleBase(redirectId), title |-> redirectId,
     target |-> getArticleBase(target)]

\* as openSync_w, the file opened without truncation
openSync_a(file) ==
    file

\* fs.openSync(redirectsCacheFile, 'w'): the file is created or cut to nothing
openSync_w(file) ==
    <<>>

\* the redirects store when cacheRedirects starts: any sources, each with a
\* target other than itself
RedirectStores ==
    {r \in [Titles -> Titles \cup {NoTitle}] : \A t \in Titles : r[t] # t}

\* what an earlier run can have left in the file
StaleFiles == {<<>>, <<RedirectLine(<<"C">>, <<"A", "_", "B">>)>>}

InitCache ==
    /\ redirectsCacheFile \in StaleFiles
    /\ cacheStep = "start"
    /\ cacheRedir = [t \in Titles |-> "none"]
    /\ overlapped = FALSE

IdleCache ==
    /\ redirectsCacheFile = <<>>
    /\ cacheStep = "start"
    /\ cacheRedir = [t \in Titles |-> "none"]
    /\ overlapped = FALSE

\* the titles after getArticleIds, with the redirects store filled
InitCacheStore ==
    /\ wiki = [t \in Titles |-> NoTitle]
    /\ articleIds = {}
    /\ redirects \in RedirectStores
    /\ lookups = [t \in Titles |-> "none"]
    /\ htmlRedir = [t \in Titles |-> "none"]
    /\ art = [t \in Titles |-> "none"]
    /\ artBody = [t \in Titles |-> "none"]
    /\ files = [f \in FileNames |-> "none"]
    /\ wroteRedirect = {}
    /\ wroteArticle = {}
    /\ idsAtEnumEnd = {}
    /\ droppedLog = {}
    /\ pageCache = [t \in Titles |-> NoPage]

\* the run when the main series calls cacheRedirects
InitCacheRun ==
    /\ dumps = <<[nopic |-> FALSE, nozim |-> FALSE]>>
    /\ resume = FALSE
    /\ zimExists = {}
    /\ writeHtmlRedirects = FALSE
    /\ skipCacheCleaning = FALSE
    /\ keepHtmlArg = FALSE
    /\ keepHtml = FALSE
    /\ nopic = FALSE
    /\ nozim = FALSE
    /\ phase = "cacheRedirects"
    /\ running = TRUE
    /\ lastError = FALSE
    /\ dumpIdx = 1
    /\ exitCode = -1
    /\ dbDeleted = FALSE
    /\ mediaIds = FALSE
    /\ trace = <<>>
    /\ failedSteps = {}

\* what the actions of cacheRedirects leave alone
cacheRest == <<dlTasks, optTasks, drain, mediaStore, cachedToCheck, cacheBody, cacheHdr,
               cacheMtime, pageCache, mediaLink, symlinkIO, artVars, phaseOnly>>

\* cacheRedirects(finished): the file is reset and hkeys is sent
cacheRedirects ==
    /\ Alive /\ phase = "cacheRedirects" /\ cacheStep = "start"
    /\ redirectsCacheFile' = openSync_w(redirectsCacheFile)
    /\ redisQ' = Append(redisQ, [t |-> NoTitle, op |-> "hkeysC"])
    /\ cacheStep' = "hkeys"
    /\ UNCHANGED <<cacheRedir, overlapped, phase, exitCode, cacheRest>>

\* the answer to hkeys: eachLimit takes the keys, or the process exits
cacheHkeysReply(error) ==
    /\ Alive
    /\ Len(redisQ) > 0 /\ redisQ[1].op = "hkeysC"
    /\ redisQ' = Tail(redisQ)
    /\ IF error
       THEN exitCode' = 1 /\ UNCHANGED <<cacheStep, cacheRedir>>
       ELSE /\ exitCode' = exitCode
            /\ cacheStep' = "each"
            /\ cacheRedir' = [t \in Titles |->
                                 IF redirects[t] # NoTitle THEN "todo" ELSE "none"]
    /\ UNCHANGED <<redirectsCacheFile, overlapped, phase, cacheRest>>

\* cacheRedirect(redirectId, finished): hget of the target is sent
cacheRedirect(t) ==
    /\ Alive /\ cacheStep = "each"
    /\ cacheRedir[t] = "todo"
    /\ Process(Cardinality({u \in Titles : cacheRedir[u] \in {"hget", "append"}}), speed)
    /\ cacheRedir' = [cacheRedir EXCEPT ![t] = "hget"]
    /\ redisQ' = Append(redisQ, [t |-> t, op |-> "hgetC"])
    /\ UNCHANGED <<redirectsCacheFile, cacheStep, overlapped, phase, exitCode,
                   cacheRest>>

\* the answer to hget: fs.appendFile of the line is started, finished() is
\* called when there is no target, or the process exits
cacheHgetReply(error) ==
    /\ Alive
    /\ Len(redisQ) > 0 /\ redisQ[1].op = "hgetC"
    /\ redisQ' = Tail(redisQ)
    /\ LET t == redisQ[1].t
       IN IF error
          THEN exitCode' = 1 /\ UNCHANGED <<cacheRedir, overlapped>>
          ELSE /\ exitCode' = exitCode
               /\ cacheRedir' = [cacheRedir EXCEPT ![t] =
                                    IF redirects[t] # NoTitle THEN "append" ELSE "done"]
               /\ overlapped' = (overlapped \/ (/\ redirects[t] # NoTitle
                                                /\ \E u \in Titles :
                                                       cacheRedir[u] = "append"))
    /\ UNCHANGED <<redirectsCacheFile, cacheStep, phase, cacheRest>>

\* fs.appendFile(redirectsCacheFile, line, finished): the line is written at the
\* end of the file in one write; an error reaches the final callback of
\* eachLimit, which exits
appendFile(t, error) ==
    /\ Alive
    /\ cacheRedir[t] = "append"
    /\ IF error
       THEN exitCode' = 1 /\ UNCHANGED <<redirectsCacheFile, cacheRedir>>
       ELSE /\ exitCode' = exitCode
            /\ redirectsCacheFile' =
                   Append(redirectsCacheFile, RedirectLine(t, redirects[t]))
            /\ cacheRedir' = [cacheRedir EXCEPT ![t] = "done"]
    /\ UNCHANGED <<redisQ, cacheStep, overlapped, phase, cacheRest>>

\* the final callback of eachLimit calls finished(): the variants start
cacheRedirectsDone ==
    /\ Alive /\ phase = "cacheRedirects" /\ cacheStep = "each"
    /\ eachLimitDone(cacheRedir)
    /\ cacheStep' = "done"
    /\ phase' = "createSubDirectories"
    /\ UNCHANGED <<redirectsCacheFile, cacheRedir, overlapped, redisQ, exitCode,
                   cacheRest>>

NextCache ==
    \/ cacheRedirects
    \/ \E error \in BOOLEAN : cacheHkeysReply(error)
    \/ \E t \in Titles : cacheRedirect(t)
    \/ \E error \in BOOLEAN : cacheHgetReply(error)
    \/ \E t \in Titles, error \in BOOLEAN : appendFile(t, error)
    \/ cacheRedirectsDone

(***************************************************************************)
(* Part 9: getSiteInfo and getMainPage, the main page of the dump.         *)
(***************************************************************************)
VARIABLES
    customMainPage, \* argv.customMainPage, '' when not given
    articleList,    \* TRUE when --articleList is given (file mode)
    mainPageId,     \* the module variable mainPageId
    name,           \* the module variable name: "" or the name in use
    langIso2,       \* the module variables langIso2 and langIso3
    langIso3,
    siteStep,       \* "start", "download" (downloadContent runs), "language"
                    \* (getLanguage runs), "done" (finished() is called),
                    \* "thrown" (the callback threw, nobody catches)
    general,        \* query.general of the answer the callback received
    indexHtm        \* index.htm under htmlRootPath: "none", "list", "redirect"

siteVars == <<customMainPage, articleList, mainPageId, name, langIso2, langIso3,
              siteStep, general, indexHtm>>

\* the '' of JavaScript
Empty == <<>>

\* what entries['mainpage'] can be
MainPages == {<<"M", "a", "i", "n", " ", "P", "a", "g", "e">>,
              <<"A", " ", "_", " ", "B">>,
              <<"H", "o", "m", "e">>}

\* query.general of the siteinfo answer
Generals == [mainpage : MainPages, sitename : {"Wikipedia"}, lang : {"en", "xx"}]
NoGeneral == [mainpage |-> Empty, sitename |-> "", lang |-> ""]

\* as ReplaceSpaces, the title left as it is
ReplaceSpaces_same(t) ==
    t

\* .replace(/ /g, '_')
ReplaceSpaces(t) ==
    [i \in 1..Len(t) |-> IF t[i] = " " THEN "_" ELSE t[i]]

\* countryLanguage.getLanguage: the ISO 639-3 code of a known language
Iso3(l) == IF l = "en" THEN "eng" ELSE ""

\* let mainPageId = argv.customMainPage || ''
InitSite ==
    /\ customMainPage \in {Empty, <<"P", "o", "r", "t", "a", "l">>}
    /\ articleList \in BOOLEAN
    /\ mainPageId = customMainPage
    /\ name \in {"", "Custom"}
    /\ langIso2 = ""
    /\ langIso3 = ""
    /\ siteStep = "start"
    /\ general = NoGeneral
    /\ indexHtm = "none"

IdleSite ==
    /\ customMainPage = Empty
    /\ articleList = FALSE
    /\ mainPageId = Empty
    /\ name = ""
    /\ langIso2 = ""
    /\ langIso3 = ""
    /\ siteStep = "start"
    /\ general = NoGeneral
    /\ indexHtm = "none"

\* getSiteInfo(finished): the siteinfo request is sent
getSiteInfo ==
    /\ siteStep = "start"
    /\ siteStep' = "download"
    /\ UNCHANGED <<customMainPage, articleList, mainPageId, name, langIso2, langIso3,
                   general, indexHtm>>

\* the callback of downloadContent: a body JSON.parse or ['query']['general']
\* fails on throws; else the main page, the site name and the language are set
\* and the language is looked up
getSiteInfoContent(parsed, entries) ==
    /\ siteStep = "download"
    /\ IF ~parsed
       THEN /\ siteStep' = "thrown"
            /\ UNCHANGED <<mainPageId, name, langIso2, general>>
       ELSE /\ general' = entries
            /\ mainPageId' = IF mainPageId = Empty /\ ~articleList
                             THEN ReplaceSpaces(entries.mainpage)
                             ELSE mainPageId
            /\ name' = IF name = "" THEN entries.sitename ELSE name
            /\ langIso2' = entries.lang
            /\ siteStep' = "language"
    /\ UNCHANGED <<customMainPage, articleList, langIso3, indexHtm>>

\* the callback of countryLanguage.getLanguage
getLanguage(error) ==
    /\ siteStep = "language"
    /\ langIso3' = IF error \/ Iso3(langIso2) = "" THEN langIso2 ELSE Iso3(langIso2)
    /\ siteStep' = "done"
    /\ UNCHANGED <<customMainPage, articleList, mainPageId, name, langIso2, general,
                   indexHtm>>

\* getMainPage(finished), in the series of a dump variant: a redirect to the
\* main page when there is one, else the list of the articles
getMainPage ==
    /\ siteStep = "done"
    /\ indexHtm = "none"
    /\ indexHtm' = IF mainPageId # Empty THEN "redirect" ELSE "list"
    /\ UNCHANGED <<customMainPage, articleList, mainPageId, name, langIso2, langIso3,
                   siteStep, general>>

NextSite ==
    \/ getSiteInfo
    \/ \E parsed \in BOOLEAN, entries \in Generals : getSiteInfoContent(parsed, entries)
    \/ \E error \in BOOLEAN : getLanguage(error)
    \/ getMainPage

(***************************************************************************)
(* Part 10: getArticleBase on the bytes of a title.  A title is the        *)
(* sequence of its UTF-16 code units, as JavaScript strings are:           *)
(*   "a"  a letter (1 byte in UTF-8, kept by encodeURIComponent)           *)
(*   "/"  the slash, " " the space (1 byte, written %XX when escaped)      *)
(*   "e2" a character of 2 bytes, "e3" a character of 3 bytes              *)
(*   "hi", "lo"  the two surrogates of a character of 4 bytes              *)
(***************************************************************************)
\* how many characters follow the run of letters of a title
MaxTail == 2
\* how far below the ceiling the shortest run of letters ends
MaxSlack == 7

\* the characters a title is made of, as code units
BaseChars == {<<"a">>, <<"/">>, <<" ">>, <<"e2">>, <<"e3">>, <<"hi", "lo">>}

RECURSIVE Tails(_)
Tails(n) ==
    IF n = 0 THEN {<<>>}
    ELSE Tails(n - 1) \cup {t \o c : t \in Tails(n - 1), c \in BaseChars}

\* the titles: a run of letters, short or ending near the ceiling, then a few
\* characters of any kind
BaseTitles ==
    {[i \in 1..n |-> "a"] \o t :
        n \in {0} \cup ((MaxFilenameBytes - MaxSlack)..MaxFilenameBytes),
        t \in Tails(MaxTail)}

VARIABLES
    baseId,         \* articleId
    baseEscape,     \* escape
    baseOut         \* what getArticleBase returned: called, thrown, the code units
                    \* of filename after the loop, the bytes of the result

baseVars == <<baseId, baseEscape, baseOut>>

\* the code unit at i is a surrogate next to its other half
Paired(s, i) ==
    \/ s[i] = "hi" /\ i < Len(s) /\ s[i + 1] = "lo"
    \/ s[i] = "lo" /\ i > 1 /\ s[i - 1] = "hi"

\* the bytes of the code unit at i in UTF-8: a surrogate pair is 4 bytes, 2 for
\* each half; a surrogate alone is written as U+FFFD, 3 bytes
unitBytes(s, i) ==
    CASE s[i] \in {"hi", "lo"} -> IF Paired(s, i) THEN 2 ELSE 3
      [] s[i] = "e3" -> 3
      [] s[i] = "e2" -> 2
      [] OTHER -> 1

\* Buffer.byteLength(s, 'utf8'): the sum of unitBytes, no unit being more than 3
byteLength(s) ==
    Len(s) + Cardinality({i \in 1..Len(s) : unitBytes(s, i) >= 2})
           + Cardinality({i \in 1..Len(s) : unitBytes(s, i) >= 3})

\* filename.substr(0, filename.length - 1): the last code unit is removed
substr_dropLast(s) ==
    SubSeq(s, 1, Len(s) - 1)

\* while (Buffer.byteLength(filename, 'utf8') > 250) filename = filename.substr(..)
RECURSIVE whileTooLong(_)
whileTooLong(filename) ==
    IF byteLength(filename) > MaxFilenameBytes
    THEN whileTooLong(substr_dropLast(filename))
    ELSE filename

\* a surrogate without its other half
LoneSurrogate(s) ==
    \E i \in 1..Len(s) :
        \/ s[i] = "hi" /\ (i = Len(s) \/ s[i + 1] # "lo")
        \/ s[i] = "lo" /\ (i = 1 \/ s[i - 1] # "hi")

\* the code units encodeURIComponent writes as %XX
Escaped(u) == u \notin {"a", "_"}

\* the length of encodeURIComponent(s): a letter or '_' stays, every byte of
\* the UTF-8 form of the other characters becomes the three characters %XX
encodedLength(s) ==
    (Len(s) - Len(SelectSeq(s, Escaped))) + 3 * byteLength(SelectSeq(s, Escaped))

NoBase == [called |-> FALSE, thrown |-> FALSE, filename |-> <<>>, bytes |-> 0]

\* getArticleBase(articleId, escape): encodeURIComponent throws URIError on a
\* surrogate alone
getArticleBaseOf(articleId, escape) ==
    LET filename == whileTooLong(ReplaceSlash(articleId))
    IN IF escape /\ LoneSurrogate(filename)
       THEN [called |-> TRUE, thrown |-> TRUE, filename |-> filename, bytes |-> 0]
       ELSE [called |-> TRUE, thrown |-> FALSE, filename |-> filename,
             bytes |-> (IF escape THEN encodedLength(filename)
                        ELSE byteLength(filename)) + Len(<<".", "h", "t", "m", "l">>)]

InitBase ==
    /\ baseId \in BaseTitles
    /\ baseEscape \in BOOLEAN
    /\ baseOut = NoBase

IdleBase ==
    /\ baseId = <<>>
    /\ baseEscape = FALSE
    /\ baseOut = NoBase

callGetArticleBase ==
    /\ ~baseOut.called
    /\ baseOut' = getArticleBaseOf(baseId, baseEscape)
    /\ UNCHANGED <<baseId, baseEscape>>

NextBase == callGetArticleBase

(***************************************************************************)
(* Part 11: isMirrored.  Titles are sequences of the characters "T", " "   *)
(* and ":".                                                                *)
(***************************************************************************)
\* the longest title
MaxIdLen == 4

RECURSIVE Ids(_)
Ids(n) ==
    IF n = 0 THEN {<<>>}
    ELSE Ids(n - 1) \cup {t \o <<c>> : t \in Ids(n - 1), c \in {"T", " ", ":"}}

\* the keys getNamespaces can have filled: names with '_' for ' '
NamespaceNames == {<<"T">>, <<"T", "_", "T">>}

\* namespaces[key]: undefined, or the details of a namespace
NamespaceDetails == [defined : {TRUE}, isContent : BOOLEAN]
                        \cup {[defined |-> FALSE, isContent |-> FALSE]}

VARIABLES
    mirId,          \* the id isMirrored is called with
    mirList,        \* articleList is set
    namespaces,     \* the module variable namespaces, on NamespaceNames
    mirIds,         \* the keys of the article-id map
    mirOut          \* what isMirrored returned

mirVars == <<mirId, mirList, namespaces, mirIds, mirOut>>

\* id.indexOf(':'), counted from 1; 0 when there is none
indexOf(id) ==
    IF \E i \in 1..Len(id) : id[i] = ":"
    THEN CHOOSE i \in 1..Len(id) : id[i] = ":" /\ \A j \in 1..(i - 1) : id[j] # ":"
    ELSE 0

\* namespaces[key]
Lookup(ns, key) ==
    IF key \in NamespaceNames THEN ns[key] ELSE [defined |-> FALSE, isContent |-> FALSE]

NotCalled == [called |-> FALSE, value |-> FALSE]

\* isMirrored(id)
isMirrored(id, list, ns, ids) ==
    LET colon == indexOf(id)
        namespace == Lookup(ns, ReplaceSpaces(SubSeq(id, 1, colon - 1)))
    IN IF ~list /\ id # <<>> /\ colon >= 1 /\ namespace.defined
       THEN namespace.isContent
       ELSE id \in ids

InitMir ==
    /\ mirId \in Ids(MaxIdLen)
    /\ mirList \in BOOLEAN
    /\ namespaces \in [NamespaceNames -> NamespaceDetails]
    /\ mirIds \in {{}, {mirId}, {<<"T">>}}
    /\ mirOut = NotCalled

IdleMir ==
    /\ mirId = <<>>
    /\ mirList = FALSE
    /\ namespaces = [k \in NamespaceNames |-> [defined |-> FALSE, isContent |-> FALSE]]
    /\ mirIds = {}
    /\ mirOut = NotCalled

callIsMirrored ==
    /\ ~mirOut.called
    /\ mirOut' = [called |-> TRUE, value |-> isMirrored(mirId, mirList, namespaces, mirIds)]
    /\ UNCHANGED <<mirId, mirList, namespaces, mirIds>>

NextMir == callIsMirrored

(***************************************************************************)
(* Part 12: the series of getArticleIds: the main page, the enumeration    *)
(* (the lines of the file, or the namespaces), the main page again.        *)
(***************************************************************************)
\* the titles of the wiki in this part; MainTitle is the main page
MainTitle == "M"
IdTitles == {MainTitle, "A", "B"}

VARIABLES
    idsList,        \* articleList is set (file mode)
    idsMain,        \* mainPageId: MainTitle, or "" (file mode, none configured)
    idsExists,      \* the titles that are pages of the wiki
    idsTodo,        \* the titles the enumeration has still to list
    idsStep,        \* "line1" step 1 of the series runs, "enum" step 2,
                    \* "drain" drainRedirectQueue was called, "line3" step 3
                    \* fetches the main page, "done" getArticleIds called
                    \* finished(), "exit" process.exit(1)
    idsMap,         \* the keys of articleIds
    idsLookup,      \* redirectQueue: title -> "none", "queued", "running", "done"
    idsDrainTo,     \* the finished the drain handler holds: "none", "step2"
                    \* (the callback of step 2), "outer" (of getArticleIds)
    idsEndFetch,    \* history: step 3 called getArticleIdsForLine(mainPageId)
    idsCalls,       \* history: how many times finished() of getArticleIds was called
    idsFires,       \* history: how many times the drain handler was called
    idsTargets,     \* redisRedirectsDatabase: the titles redirects point to
    idsFailed       \* history: the titles whose lookup called finished(error)

idsVars == <<idsList, idsMain, idsExists, idsTodo, idsStep, idsMap, idsLookup,
             idsDrainTo, idsEndFetch, idsCalls, idsFires, idsTargets, idsFailed>>

\* the bodies a request about title t can be answered with: the page with its
\* revisions, the page with its pageid and no revisions, the entry marked
\* missing, or an empty body
Bodies(t) ==
    IF t \in idsExists THEN {"page", "norev", "empty"} ELSE {"missing", "empty"}

\* parseJson on the answer about t: the map after it
parseJsonMap(t, body) ==
    CASE body = "page" -> idsMap \cup {t}
      [] body \in {"missing", "norev"} -> idsMap \ {t}
      [] OTHER -> idsMap

\* parseJson on the answer about t: redirectQueue.push of the title, which
\* was put on redirectQueueValues before the test on the revisions
parseJsonPush(t, body) ==
    IF body \in {"page", "norev"} THEN [idsLookup EXCEPT ![t] = "queued"] ELSE idsLookup

InitIds ==
    /\ idsList \in BOOLEAN
    /\ idsMain \in {MainTitle, ""}
    /\ ~idsList => idsMain = MainTitle
    /\ idsExists \in SUBSET IdTitles
    /\ idsTodo \in SUBSET IdTitles
    /\ ~idsList => idsTodo \subseteq idsExists
    /\ idsStep = "line1"
    /\ idsMap = {}
    /\ idsLookup = [t \in IdTitles |-> "none"]
    /\ idsDrainTo = "none"
    /\ idsEndFetch = FALSE
    /\ idsCalls = 0
    /\ idsFires = 0
    /\ idsTargets = {}
    /\ idsFailed = {}

IdleIds ==
    /\ idsList = FALSE
    /\ idsMain = ""
    /\ idsExists = {}
    /\ idsTodo = {}
    /\ idsStep = "line1"
    /\ idsMap = {}
    /\ idsLookup = [t \in IdTitles |-> "none"]
    /\ idsDrainTo = "none"
    /\ idsEndFetch = FALSE
    /\ idsCalls = 0
    /\ idsFires = 0
    /\ idsTargets = {}
    /\ idsFailed = {}

\* getArticleIdsForLine(mainPageId, finished) of step 1 and of step 3, with the
\* callback of its request: finished() at once without a main page, else
\* parseJson on a body of more than one character, then finished()
getArticleIdsForLineMain(body) ==
    /\ idsStep \in {"line1", "line3"}
    /\ IF idsMain = ""
       THEN UNCHANGED <<idsMap, idsLookup>>
       ELSE /\ body \in Bodies(idsMain)
            /\ idsMap' = parseJsonMap(idsMain, body)
            /\ idsLookup' = parseJsonPush(idsMain, body)
    /\ idsStep' = IF idsStep = "line1" THEN "enum" ELSE "done"
    /\ idsCalls' = IF idsStep = "line1" THEN idsCalls ELSE idsCalls + 1
    /\ UNCHANGED <<idsList, idsMain, idsExists, idsTodo, idsDrainTo, idsEndFetch,
                   idsFires, idsTargets, idsFailed>>

\* step 2, one answer: a line of the file (getArticleIdsForLine), or a page of
\* a namespace (getArticleIdsForNamespace, where an empty body ends the
\* process)
enumerate(t, body) ==
    /\ idsStep = "enum"
    /\ t \in idsTodo
    /\ body \in Bodies(t)
    /\ idsTodo' = idsTodo \ {t}
    /\ IF ~idsList /\ body = "empty"
       THEN idsStep' = "exit" /\ UNCHANGED <<idsMap, idsLookup>>
       ELSE /\ idsMap' = parseJsonMap(t, body)
            /\ idsLookup' = parseJsonPush(t, body)
            /\ idsStep' = idsStep
    /\ UNCHANGED <<idsList, idsMain, idsExists, idsDrainTo, idsEndFetch, idsCalls,
                   idsFires, idsTargets, idsFailed>>

\* as DrainTarget, getArticleIdsForNamespaces taking the callback of step 2
DrainTarget_step2(list) ==
    "step2"

\* the finished in scope where drainRedirectQueue(finished) is called: the
\* parameter of getArticleIdsForFile(finished), the callback of step 2; in
\* getArticleIdsForNamespaces(), without a parameter, that of getArticleIds
DrainTarget(list) ==
    IF list THEN "step2" ELSE "outer"

\* the final callback of eachLimit in getArticleIdsForFile(finished) and in
\* getArticleIdsForNamespaces(), which has no parameter: drainRedirectQueue is
\* called with the finished in scope
drainRedirectQueueIds ==
    /\ idsStep = "enum"
    /\ idsTodo = {}
    /\ idsStep' = "drain"
    /\ idsDrainTo' = DrainTarget(idsList)
    /\ UNCHANGED <<idsList, idsMain, idsExists, idsTodo, idsMap, idsLookup,
                   idsEndFetch, idsCalls, idsFires, idsTargets, idsFailed>>

\* redirectQueue starts a worker
redirectQueueWorker(t) ==
    /\ idsStep # "exit"
    /\ idsLookup[t] = "queued"
    /\ Process(Cardinality({u \in IdTitles : idsLookup[u] = "running"}), speed * 3)
    /\ idsLookup' = [idsLookup EXCEPT ![t] = "running"]
    /\ UNCHANGED <<idsList, idsMain, idsExists, idsTodo, idsStep, idsMap, idsDrainTo,
                   idsEndFetch, idsCalls, idsFires, idsTargets, idsFailed>>

\* the answer lists the redirects to t (found: there is one), hmset stores
\* them and the worker calls finished(); or (error) the answer holds an error
\* or does not parse, and the worker calls finished(error); when the phase has ended already and the
\* queue is empty again, the drain handler, which is still set, is called
\* once more
redirectQueueFinished(t) ==
    /\ idsStep # "exit"
    /\ idsLookup[t] = "running"
    /\ idsLookup' = [idsLookup EXCEPT ![t] = "done"]
    /\ idsFires' = IF /\ idsStep = "done" /\ idsDrainTo # "none"
                      /\ \A u \in IdTitles \ {t} : idsLookup[u] \in {"none", "done"}
                   THEN idsFires + 1 ELSE idsFires
    /\ \E found, error \in BOOLEAN :
          /\ idsTargets' = IF found /\ ~error THEN idsTargets \cup {t} ELSE idsTargets
          /\ idsFailed' = IF error THEN idsFailed \cup {t} ELSE idsFailed
    /\ UNCHANGED <<idsList, idsMain, idsExists, idsTodo, idsStep, idsMap, idsDrainTo,
                   idsEndFetch, idsCalls>>

\* the error argument of the drain handler: async.queue calls drain() without
\* an argument, whatever the workers handed to finished
DrainError(failed) ==
    FALSE

\* redirectQueue.drain: the queue is empty and no worker runs.  With an error
\* the handler ends the process; else the finished of getArticleIds ends the
\* phase, the callback of step 2 starts step 3
redirectQueueDrain ==
    /\ idsStep = "drain"
    /\ \A t \in IdTitles : idsLookup[t] \in {"none", "done"}
    /\ idsFires' = idsFires + 1
    /\ IF DrainError(idsFailed)
       THEN idsStep' = "exit" /\ UNCHANGED <<idsEndFetch, idsCalls>>
       ELSE IF idsDrainTo = "outer" \/ idsList
            THEN idsStep' = "done" /\ idsEndFetch' = idsEndFetch
                                  /\ idsCalls' = idsCalls + 1
            ELSE IF idsMain \notin idsMap
                 THEN idsStep' = "line3" /\ idsEndFetch' = TRUE /\ idsCalls' = idsCalls
                 ELSE idsStep' = "done" /\ idsEndFetch' = idsEndFetch
                                       /\ idsCalls' = idsCalls + 1
    /\ UNCHANGED <<idsList, idsMain, idsExists, idsTodo, idsMap, idsLookup, idsDrainTo,
                   idsTargets, idsFailed>>

NextIds ==
    \/ \E body \in {"page", "norev", "missing", "empty"} : getArticleIdsForLineMain(body)
    \/ \E t \in IdTitles, body \in {"page", "norev", "missing", "empty"} : enumerate(t, body)
    \/ drainRedirectQueueIds
    \/ \E t \in IdTitles : redirectQueueWorker(t)
    \/ \E t \in IdTitles : redirectQueueFinished(t)
    \/ redirectQueueDrain

(***************************************************************************)
(* Part 13: the timers of the enumeration of titles.                       *)
(***************************************************************************)
\* the length of redirectQueue above which the requests are held back
BackOffThreshold == 30000
\* how far from the threshold the lengths of the queue go
MaxOver == 30

\* redirectQueue.length() when a timer is set
QueueLengths == {0} \cup ((BackOffThreshold - MaxOver)..(BackOffThreshold + MaxOver))

VARIABLES
    qLength,        \* redirectQueue.length()
    byFile,         \* TRUE: getArticleIdsForLine; FALSE: getArticleIdsForNamespace
    scheduler,      \* "idle", "waiting" (the timer of the request is set),
                    \* "requested" (downloadContent runs), "finishing" (the timer
                    \* of finished is set)
    timer           \* the timer set last: what it calls and after how many ms

delayVars == <<qLength, byFile, scheduler, timer>>

NoTimer == [fn |-> "none", ms |-> 0]

\* as backOff, the whole length of the queue
backOff_whole(len) ==
    len

\* redirectQueue.length() > 30000 ? redirectQueue.length() - 30000 : 0
backOff(len) ==
    IF len > BackOffThreshold THEN len - BackOffThreshold ELSE 0

InitDelay ==
    /\ qLength \in QueueLengths
    /\ byFile \in BOOLEAN
    /\ scheduler = "idle"
    /\ timer = NoTimer

IdleDelay ==
    /\ qLength = 0
    /\ byFile = FALSE
    /\ scheduler = "idle"
    /\ timer = NoTimer

\* getArticleIdsForLine and the body of the doWhilst of
\* getArticleIdsForNamespace: setTimeout(downloadContent, .., url, callback)
scheduleRequest ==
    /\ scheduler = "idle"
    /\ timer' = [fn |-> "downloadContent", ms |-> backOff(qLength)]
    /\ scheduler' = "waiting"
    /\ UNCHANGED <<qLength, byFile>>

\* the timer ends: the request is sent
timerDownloadContent ==
    /\ scheduler = "waiting"
    /\ scheduler' = "requested"
    /\ UNCHANGED <<qLength, byFile, timer>>

\* the callback of the request, after parseJson and the work of the queue in
\* the meantime: by file setTimeout(finished, redirectQueue.length()), by
\* namespace finished() and the next turn of the doWhilst
requestCallback(len) ==
    /\ scheduler = "requested"
    /\ qLength' = len
    /\ IF byFile
       THEN timer' = [fn |-> "finished", ms |-> len] /\ scheduler' = "finishing"
       ELSE timer' = NoTimer /\ scheduler' = "idle"
    /\ UNCHANGED byFile

\* the timer ends: finished(), eachLimit takes the next line
timerFinished ==
    /\ scheduler = "finishing"
    /\ timer' = NoTimer
    /\ scheduler' = "idle"
    /\ UNCHANGED <<qLength, byFile>>

NextDelay ==
    \/ scheduleRequest
    \/ timerDownloadContent
    \/ \E len \in QueueLengths : requestCallback(len)
    \/ timerFinished

(***************************************************************************)
(* Part 14: the worker of optimizationQueue on one file.                   *)
(***************************************************************************)
\* async.retry(5, ..)
OptRetryTimes == 5

\* the extensions of the files and the types file -b --mime-type names
OptTypes == {"png", "jpeg", "gif", "webp"}

\* getOptimizationCommand(path, forcedType): the tool of the command, "none"
\* for the undefined of a type without a command
getOptimizationCommand(type) ==
    CASE type = "jpeg" -> "jpegoptim"
      [] type = "png" -> "pngquant"
      [] type = "gif" -> "gifsicle"
      [] OTHER -> "none"

VARIABLES
    optPath,        \* file.path is not empty (FALSE: the item pushed by the drain)
    optExt,         \* the extension of the path
    optCmd,         \* the variable cmd
    optStep,        \* "queued", "stat", "exec", "statAfter", "file", "wait",
                    \* "done" (finished() of the queue is called), "thrown" (an
                    \* exception nobody catches: process.exit(42))
    optTry,         \* the attempt of async.retry that runs
    optRuns,        \* history: how many times exec(cmd) was called
    optLog          \* what was logged last: "none", "notStarted", "failed",
                    \* "skipped", "ok"

optVars == <<optPath, optExt, optCmd, optStep, optTry, optRuns, optLog>>

InitOpt ==
    /\ optPath \in BOOLEAN
    /\ optExt \in OptTypes
    /\ optCmd = "none"
    /\ optStep = "queued"
    /\ optTry = 0
    /\ optRuns = 0
    /\ optLog = "none"

IdleOpt ==
    /\ optPath = FALSE
    /\ optExt = "png"
    /\ optCmd = "none"
    /\ optStep = "queued"
    /\ optTry = 0
    /\ optRuns = 0
    /\ optLog = "none"

\* async.retry after an attempt has called back with an error: the next attempt,
\* or the final callback, which logs the failure and calls finished()
retryStep(try) ==
    IF try < OptRetryTimes THEN "exec" ELSE "done"

\* the variables after an attempt has called back with an error
attemptFailed ==
    /\ optStep' = retryStep(optTry)
    /\ optTry' = IF retryStep(optTry) = "exec" THEN optTry + 1 ELSE optTry
    /\ optLog' = IF retryStep(optTry) = "exec" THEN optLog ELSE "failed"

\* the worker takes the file: fs.stat(path), or finished() without a path
optWorker ==
    /\ optStep = "queued"
    /\ optStep' = IF optPath THEN "stat" ELSE "done"
    /\ UNCHANGED <<optPath, optExt, optCmd, optTry, optRuns, optLog>>

\* the callback of fs.stat: with the recorded size the command is chosen and
\* async.retry starts its first attempt
optStatDone(sameSize) ==
    /\ optStep = "stat"
    /\ IF sameSize
       THEN /\ optCmd' = getOptimizationCommand(optExt)
            /\ optLog' = optLog
            /\ IF getOptimizationCommand(optExt) # "none"
               THEN optStep' = "exec" /\ optTry' = 1
               ELSE optStep' = "done" /\ optTry' = optTry
       ELSE /\ optLog' = "notStarted"
            /\ optStep' = "done"
            /\ UNCHANGED <<optCmd, optTry>>
    /\ UNCHANGED <<optPath, optExt, optRuns>>

\* an attempt: exec(cmd, callback) and its callback.  With cmd undefined exec
\* throws a TypeError (Node.js from version 6 on) or runs the shell on the word
\* undefined, which fails (before)
optExec(executionError, throws) ==
    /\ optStep = "exec"
    /\ optRuns' = optRuns + 1
    /\ IF optCmd = "none" /\ throws
       THEN optStep' = "thrown" /\ optLog' = optLog
       ELSE IF executionError \/ optCmd = "none"
            THEN optStep' = "statAfter" /\ optLog' = optLog
            ELSE optStep' = "done" /\ optLog' = "ok"
    /\ UNCHANGED <<optPath, optExt, optCmd, optTry>>

\* the callback of fs.stat after a failed command: a larger file ends the retry
\* with skip, a smaller one is an error, else the type of the file is asked for
optStatAfter(size) ==
    /\ optStep = "statAfter"
    /\ CASE size = "larger" -> optStep' = "done" /\ optLog' = "skipped" /\ optTry' = optTry
         [] size = "smaller" -> attemptFailed
         [] OTHER -> optStep' = "file" /\ optLog' = optLog /\ optTry' = optTry
    /\ UNCHANGED <<optPath, optExt, optCmd, optRuns>>

\* the callback of exec('file -b --mime-type ..'): cmd is chosen again; with a
\* command the error is handed over after 2000 ms, without one at once
optFileType(type) ==
    /\ optStep = "file"
    /\ optCmd' = getOptimizationCommand(type)
    /\ IF getOptimizationCommand(type) # "none"
       THEN optStep' = "wait" /\ optLog' = optLog /\ optTry' = optTry
       ELSE attemptFailed
    /\ UNCHANGED <<optPath, optExt, optRuns>>

\* setTimeout(finished, 2000, executionError)
optTimer ==
    /\ optStep = "wait"
    /\ attemptFailed
    /\ UNCHANGED <<optPath, optExt, optCmd, optRuns>>

NextOpt ==
    \/ optWorker
    \/ \E sameSize \in BOOLEAN : optStatDone(sameSize)
    \/ \E executionError \in BOOLEAN, throws \in BOOLEAN : optExec(executionError, throws)
    \/ \E size \in {"larger", "smaller", "same", "error"} : optStatAfter(size)
    \/ \E type \in OptTypes : optFileType(type)
    \/ optTimer

laterVars == <<geoVars, cacheVars, siteVars, baseVars, mirVars, idsVars, delayVars, optVars>>

vars == <<runVars, mediaVars, artVars, queueVars, contentVars, sectionVars, laterVars>>

NextRun ==
    \/ (\E o \in {"ok", "err", "kvErr", "exit1", "exit42"} : FinishPhase(o))
          /\ UNCHANGED <<mediaVars, artVars>>
    \/ checkResume /\ UNCHANGED <<mediaVars, artVars>>
    \/ StartPhase /\ UNCHANGED <<mediaVars, artVars>>

\* the run orchestrator alone: no media work, no titles
InitSpecRun ==
    InitRun /\ IdleMedia /\ IdleArticles /\ IdleQueues /\ IdleContent /\
      IdleSection /\ IdleGeo /\ IdleCache /\ IdleSite /\ IdleBase /\ IdleMir /\
      IdleIds /\ IdleDelay /\ IdleOpt

SpecRun ==
    InitSpecRun
      /\ [][NextRun
             /\ UNCHANGED <<queueVars, contentVars, sectionVars, geoVars, cacheVars, siteVars,
                        baseVars, mirVars, idsVars, delayVars, optVars>>]_vars

\* the media pipeline of one variant, from saveArticles to buildZIM
InitSpecMedia ==
    IdleRun /\ InitMedia /\ IdleArticles /\ IdleQueues /\ IdleContent /\
      IdleSection /\ IdleGeo /\ IdleCache /\ IdleSite /\ IdleBase /\ IdleMir /\
      IdleIds /\ IdleDelay /\ IdleOpt

SpecMedia ==
    InitSpecMedia
      /\ [][NextMedia
             /\ UNCHANGED <<artVars, queueVars, contentVars, sectionVars, geoVars, cacheVars,
                        siteVars, baseVars, mirVars, idsVars, delayVars, optVars>>]_vars

\* downloadFileQueue alone, from the pushes of saveArticles to the end of
\* drainDownloadFileQueue; the files pushed to optimizationQueue stay queued
\* (its worker touches no task of downloadFileQueue)
DownloadAnswers ==
    \/ \E i \in 1..MaxRequests : DlStart(i)
    \/ \E error \in BOOLEAN : HgetReply(error)
    \/ \E error \in BOOLEAN : HsetReply(error)
    \/ \E error \in BOOLEAN : CheckDbReply(error)
    \/ \E i \in 1..MaxRequests : HitSymlinkDone(i)
    \/ \E i \in 1..MaxRequests : StatDone(i)
    \/ \E i \in 1..MaxRequests : HttpFail(i)
    \/ \E i \in 1..MaxRequests : HttpOk(i)
    \/ \E i \in 1..MaxRequests : WriteBodyDone(i)
    \/ \E i \in 1..MaxRequests : SymlinkDone(i)
    \/ \E i \in 1..MaxRequests : WriteHdrDone(i)
    \/ SaveArticlesDone
    \/ DrainPoll
    \/ DrainSentinel

NextDownloads ==
    \/ \E b \in Bases, w \in Widths : PushMedia(b, w)
    \/ DownloadAnswers

\* every call that was started is answered and every timer that was set
\* fires: a step other than a new push is taken when one is possible
SpecMediaLive ==
    InitSpecMedia
      /\ [][NextDownloads
             /\ UNCHANGED <<artVars, queueVars, contentVars, sectionVars, geoVars, cacheVars,
                        siteVars, baseVars, mirVars, idsVars, delayVars, optVars>>]_vars
      /\ WF_vars(DownloadAnswers
             /\ UNCHANGED <<artVars, queueVars, contentVars, sectionVars, geoVars, cacheVars,
                        siteVars, baseVars, mirVars, idsVars, delayVars, optVars>>)

\* the titles of one variant, from getArticleIds to the end of saveArticles
InitSpecArticles ==
    InitArticlesRun /\ IdleMedia /\ InitArticles /\ IdleQueues /\ IdleContent /\
      IdleSection /\ IdleGeo /\ IdleCache /\ IdleSite /\ IdleBase /\ IdleMir /\
      IdleIds /\ IdleDelay /\ IdleOpt

SpecArticles ==
    InitSpecArticles
      /\ [][NextArticles
             /\ UNCHANGED <<queueVars, contentVars, sectionVars, geoVars, cacheVars, siteVars,
                        baseVars, mirVars, idsVars, delayVars, optVars>>]_vars

\* the four queues alone
InitSpecQueues ==
    IdleRun /\ IdleMedia /\ IdleArticles /\ IdleQueues /\ IdleContent /\
      IdleSection /\ IdleGeo /\ IdleCache /\ IdleSite /\ IdleBase /\ IdleMir /\
      IdleIds /\ IdleDelay /\ IdleOpt

SpecQueues ==
    InitSpecQueues
      /\ [][NextQueues
             /\ UNCHANGED <<runVars, mediaVars, artVars, contentVars, sectionVars, geoVars,
                        cacheVars, siteVars, baseVars, mirVars, idsVars, delayVars, optVars>>]_vars

\* calls of downloadContent alone
InitSpecContent ==
    IdleRun /\ IdleMedia /\ IdleArticles /\ IdleQueues /\ InitContent /\
      IdleSection /\ IdleGeo /\ IdleCache /\ IdleSite /\ IdleBase /\ IdleMir /\
      IdleIds /\ IdleDelay /\ IdleOpt

SpecContent ==
    InitSpecContent
      /\ [][NextContent
             /\ UNCHANGED <<runVars, mediaVars, artVars, queueVars, sectionVars, geoVars,
                        cacheVars, siteVars, baseVars, mirVars, idsVars, delayVars, optVars>>]_vars

\* the rewrite of one section
InitSpecSection ==
    InitSectionRun /\ IdleMedia /\ IdleArticles /\ IdleQueues /\ IdleContent /\
      InitSection /\ IdleGeo /\ IdleCache /\ IdleSite /\ IdleBase /\ IdleMir /\
      IdleIds /\ IdleDelay /\ IdleOpt

SpecSection ==
    InitSpecSection
      /\ [][NextSection
             /\ UNCHANGED <<geoVars, cacheVars, siteVars, baseVars, mirVars, idsVars,
                        delayVars, optVars>>]_vars

\* the rewrite of one geohack link
InitSpecGeo ==
    IdleRun /\ IdleMedia /\ IdleArticles /\ IdleQueues /\ IdleContent /\
      IdleSection /\ InitGeo /\ IdleCache /\ IdleSite /\ IdleBase /\ IdleMir /\
      IdleIds /\ IdleDelay /\ IdleOpt

SpecGeo ==
    InitSpecGeo
      /\ [][NextGeo
             /\ UNCHANGED <<runVars, mediaVars, artVars, queueVars, contentVars, sectionVars,
                        cacheVars, siteVars, baseVars, mirVars, idsVars, delayVars, optVars>>]_vars

\* cacheRedirects, after getArticleIds
InitSpecCache ==
    InitCacheRun /\ IdleMedia /\ InitCacheStore /\ IdleQueues /\ IdleContent /\
      IdleSection /\ IdleGeo /\ InitCache /\ IdleSite /\ IdleBase /\ IdleMir /\
      IdleIds /\ IdleDelay /\ IdleOpt

SpecCache ==
    InitSpecCache
      /\ [][NextCache
             /\ UNCHANGED <<queueVars, contentVars, sectionVars, geoVars, siteVars, baseVars,
                        mirVars, idsVars, delayVars, optVars>>]_vars

\* getSiteInfo, then getMainPage
InitSpecSite ==
    IdleRun /\ IdleMedia /\ IdleArticles /\ IdleQueues /\ IdleContent /\
      IdleSection /\ IdleGeo /\ IdleCache /\ InitSite /\ IdleBase /\ IdleMir /\
      IdleIds /\ IdleDelay /\ IdleOpt

SpecSite ==
    InitSpecSite
      /\ [][NextSite
             /\ UNCHANGED <<runVars, mediaVars, artVars, queueVars, contentVars, sectionVars,
                        geoVars, cacheVars, baseVars, mirVars, idsVars, delayVars, optVars>>]_vars

\* getArticleBase on the titles near the ceiling
InitSpecBase ==
    IdleRun /\ IdleMedia /\ IdleArticles /\ IdleQueues /\ IdleContent /\
      IdleSection /\ IdleGeo /\ IdleCache /\ IdleSite /\ InitBase /\ IdleMir /\
      IdleIds /\ IdleDelay /\ IdleOpt

SpecBase ==
    InitSpecBase
      /\ [][NextBase
             /\ UNCHANGED <<runVars, mediaVars, artVars, queueVars, contentVars, sectionVars,
                        geoVars, cacheVars, siteVars, mirVars, idsVars, delayVars, optVars>>]_vars

\* isMirrored on the short titles
InitSpecMir ==
    IdleRun /\ IdleMedia /\ IdleArticles /\ IdleQueues /\ IdleContent /\
      IdleSection /\ IdleGeo /\ IdleCache /\ IdleSite /\ IdleBase /\ InitMir /\
      IdleIds /\ IdleDelay /\ IdleOpt

SpecMir ==
    InitSpecMir
      /\ [][NextMir
             /\ UNCHANGED <<runVars, mediaVars, artVars, queueVars, contentVars, sectionVars,
                        geoVars, cacheVars, siteVars, baseVars, idsVars, delayVars, optVars>>]_vars

\* the series of getArticleIds
InitSpecIds ==
    IdleRun /\ IdleMedia /\ IdleArticles /\ IdleQueues /\ IdleContent /\
      IdleSection /\ IdleGeo /\ IdleCache /\ IdleSite /\ IdleBase /\ IdleMir /\
      InitIds /\ IdleDelay /\ IdleOpt

SpecIds ==
    InitSpecIds
      /\ [][NextIds
             /\ UNCHANGED <<runVars, mediaVars, artVars, queueVars, contentVars, sectionVars,
                        geoVars, cacheVars, siteVars, baseVars, mirVars, delayVars, optVars>>]_vars

\* the timers of the enumeration of titles
InitSpecDelay ==
    IdleRun /\ IdleMedia /\ IdleArticles /\ IdleQueues /\ IdleContent /\
      IdleSection /\ IdleGeo /\ IdleCache /\ IdleSite /\ IdleBase /\ IdleMir /\
      IdleIds /\ InitDelay /\ IdleOpt

SpecDelay ==
    InitSpecDelay
      /\ [][NextDelay
             /\ UNCHANGED <<runVars, mediaVars, artVars, queueVars, contentVars, sectionVars,
                        geoVars, cacheVars, siteVars, baseVars, mirVars, idsVars, optVars>>]_vars

\* the worker of optimizationQueue on one file
InitSpecOpt ==
    IdleRun /\ IdleMedia /\ IdleArticles /\ IdleQueues /\ IdleContent /\
      IdleSection /\ IdleGeo /\ IdleCache /\ IdleSite /\ IdleBase /\ IdleMir /\
      IdleIds /\ IdleDelay /\ InitOpt

SpecOpt ==
    InitSpecOpt
      /\ [][NextOpt
             /\ UNCHANGED <<runVars, mediaVars, artVars, queueVars, contentVars, sectionVars,
                        geoVars, cacheVars, siteVars, baseVars, mirVars, idsVars, delayVars>>]_vars

(***************************************************************************)
(* Claims on the media pipeline                                            *)
(***************************************************************************)
\* the task has started an HTTP download
Http(i) == \/ dlTasks[i].st \in {"http", "writeBody", "symlink", "writeHdr"}
           \/ dlTasks[i].st = "done" /\ dlTasks[i].content # NoFile

\* the largest width requested for filenameBase b (0: none)
MaxRequested(b) ==
    LET ws == {dlTasks[i].width : i \in {j \in 1..Len(dlTasks) : dlTasks[j].base = b}}
    IN IF ws = {} THEN 0 ELSE CHOOSE w \in ws : \A v \in ws : v <= w

\* C2: when buildZIM starts no media work is pending or in flight: every task of
\* downloadFileQueue and of optimizationQueue has completed and every symlink
\* creation started by downloadFileAndCache has finished.
C2_NoMediaWorkAtBuildZIM ==
    phase = "buildZIM" => DlIdle /\ OptIdle /\ symlinkIO = {}

C4_NoDuplicateFetch ==
    \A i, j \in 1..Len(dlTasks) :
        (i # j /\ dlTasks[i].base = dlTasks[j].base
               /\ dlTasks[i].width = dlTasks[j].width) => ~(Http(i) /\ Http(j))

\* C5: once the download queue has drained, the width recorded in the headers
\* file of the cache entry of every filenameBase of the media store is at least
\* the largest width requested for it.
C5_CachedWidthCoversRequests ==
    phase \in {"drainOptimizationQueue", "buildZIM"} =>
        \A b \in Bases :
            mediaStore[b] # 0 => cacheHdr[b] # NoFile /\ cacheHdr[b] >= MaxRequested(b)

\* C10: a task whose HTTP download failed after all retries completes without
\* having created the symlink and without having written a headers file.
C10_FailedDownloadLeavesNothing ==
    \A i \in 1..Len(dlTasks) :
        (dlTasks[i].st = "done" /\ dlTasks[i].content = EmptyBody)
            => ~dlTasks[i].link /\ ~dlTasks[i].hdr

\* C11: an error answered by a KV store operation is fatal: after an hget of the
\* media dedup check has been answered with an error the process has exited with
\* code 1 and the task does no further work (no hset, no download).
C11_KvErrorIsFatal ==
    \A i \in 1..Len(dlTasks) :
        dlTasks[i].kvErr => exitCode = 1 /\ dlTasks[i].st = "hget"

\* C14: with cache cleaning, after the end-of-run sweep the body file and the
\* headers file still exist for every media cache entry that was hit (the
\* symlink callbacks of the hits having all run before the sweep) and for every
\* page cache entry that was hit or written during the run.
C14_HitEntriesSurviveSweep ==
    (phase = "cleanCache" /\ ~skipCacheCleaning /\ symlinkIO = {}) =>
        /\ \A i \in 1..Len(dlTasks) :
              dlTasks[i].look = "hit" =>
                  /\ cacheBody[dlTasks[i].base] # NoFile
                  /\ cacheHdr[dlTasks[i].base] # NoFile
        /\ \A t \in Titles :
              pageCache[t].mbody =>
                  pageCache[t].body # "none" /\ pageCache[t].hdr # "none"

\* C15: a cached body whose headers file is missing or does not parse is never
\* served as a hit, for pages and for media: neither lookup answers a hit for
\* such an entry, no media task and no article is in the hit path with such
\* headers, and the media task that found such an entry has taken the miss path.
C15_NoHitWithoutHeaders ==
    /\ \A w \in Widths, body \in Widths \cup {EmptyBody}, h \in {NoFile, Garbled} :
          ~CacheHit(body, h, w)
    /\ \A body \in BodyKinds, h \in {"none", "garbled"} : ~PageCacheHit(body, h)
    /\ \A i \in 1..Len(dlTasks) :
          /\ dlTasks[i].look = "hit" => dlTasks[i].hdrSeen \notin {NoFile, Garbled}
          /\ (dlTasks[i].look # "none" /\ dlTasks[i].hdrSeen \in {NoFile, Garbled})
                => dlTasks[i].look = "miss"
    /\ \A t \in Titles : art[t] = "hit" => pageCache[t].hdr = "ok"

\* a media task found a body without usable headers, took the miss path and has
\* downloaded the file again
C15_Witness ==
    \E i \in 1..Len(dlTasks) :
        /\ dlTasks[i].bodySeen # NoFile
        /\ dlTasks[i].hdrSeen \in {NoFile, Garbled}
        /\ dlTasks[i].look = "miss"
        /\ dlTasks[i].st = "done" /\ Http(i)

\* C17: the tasks in flight stay within the queue widths: at most speed
\* articles, speed x 3 redirect lookups, speed x 5 media downloads and
\* cpuCount x 2 optimizations, in the four queues side by side and in the
\* pipelines of the media and of the titles.
C17_InFlightWithinWidths ==
    /\ \A q \in Queues : workers[q] <= Concurrency(q)
    /\ Cardinality({u \in Titles : art[u] \in ArtRunning}) <= speed
    /\ Cardinality({u \in Titles : lookups[u] \in {"http", "hmset"}}) <= speed * 3
    /\ Cardinality(DlWorkers) <= speed * 5
    /\ Cardinality(OptWorkers) <= cpuCount * 2

\* every queue runs as many workers as it may and has an item waiting
C17_Witness ==
    \A q \in Queues : workers[q] = Concurrency(q) /\ waiting[q] > 0

\* C18: a call of downloadContent makes at most 3 attempts, makes no attempt
\* after its first successful one, and its attempt number n runs with a request
\* timeout of requestTimeout x n seconds.
C18_RetryAttempts ==
    \A c \in Calls :
        LET a == calls[c].attempts
        IN /\ Len(a) <= 3
           /\ \A n \in 1..Len(a) :
                 /\ a[n].timeout = requestTimeout * n * 1000
                 /\ a[n].res = "ok" => n = Len(a)

\* one call has ended after three failed attempts, another after a failed and
\* a successful one
C18_Witness ==
    \E c, d \in Calls :
        /\ calls[c].st = "done" /\ Len(calls[c].attempts) = 3
        /\ calls[c].attempts[3].res = "failed"
        /\ calls[d].st = "done" /\ Len(calls[d].attempts) = 2
        /\ calls[d].attempts[2].res = "ok"

\* C29: a media file that is downloaded has its width in the media store before
\* the request is sent, and is pushed to optimizationQueue only when its
\* symlink in the media directory exists.
C29_LockedFetchedSymlinkedOptimized ==
    /\ \A i \in 1..Len(dlTasks) :
          dlTasks[i].st \in {"stat", "http", "writeBody", "symlink", "writeHdr"} =>
              mediaStore[dlTasks[i].base] # 0
    /\ \A k \in 1..Len(optTasks) : mediaLink[optTasks[k].path]

\* C29, the first half alone: the width is in the media store before the
\* request is sent.
C29_WidthBeforeFetch ==
    \A i \in 1..Len(dlTasks) :
        dlTasks[i].st \in {"stat", "http", "writeBody", "symlink", "writeHdr"} =>
            mediaStore[dlTasks[i].base] # 0

\* C31: an optimization task whose file no longer has the size recorded when it
\* was pushed runs no command on it: at the callback of fs.stat the task calls
\* finished() and the process goes on.
C31_NoCommandOnReplacedFile ==
    [][\A k \in 1..Len(optTasks) :
          (/\ optTasks[k].st = "stat"
           /\ cacheBody[optTasks[k].path] # optTasks[k].size
           /\ optTasks'[k].st # "stat")
              => (/\ optTasks'[k].st = "done"
                  /\ ~optTasks'[k].ran
                  /\ exitCode' = exitCode)]_vars

\* a task has ended without a command: its file was replaced by a download of
\* another width before the worker looked at it
C31_Witness ==
    \E k \in 1..Len(optTasks) :
        /\ optTasks[k].st = "done"
        /\ ~optTasks[k].ran
        /\ cacheBody[optTasks[k].path] \in Widths
        /\ optTasks[k].size \in Widths
        /\ cacheBody[optTasks[k].path] > optTasks[k].size
        /\ Alive

\* C35: every task of downloadFileQueue calls back at most once, exactly
\* once when it has ended, on each path (width satisfied, cache hit, download,
\* failed download); when every call is answered, every task pushed ends and
\* drainDownloadFileQueue completes, unless the process has exited.
C35_EveryTaskSignalsOnce ==
    /\ [](\A i \in 1..Len(dlTasks) :
            /\ dlTasks[i].called <= 1
            /\ dlTasks[i].st = "done" <=> dlTasks[i].called = 1)
    /\ [](phase \notin {"saveArticles", "drainDownloadFileQueue"} => DlIdle)
    /\ <>(~Alive \/ phase \notin {"saveArticles", "drainDownloadFileQueue"})

\* drainDownloadFileQueue has completed after one task ended on a cache hit
\* and another after a failed download
C35_Witness ==
    /\ Alive /\ phase \in {"drainOptimizationQueue", "buildZIM"}
    /\ \E i, k \in 1..Len(dlTasks) :
          /\ dlTasks[i].look = "hit" /\ dlTasks[i].called = 1
          /\ dlTasks[k].content = EmptyBody /\ dlTasks[k].called = 1

(***************************************************************************)
(* Claims on the rewrite of a section                                      *)
(***************************************************************************)
\* C34: a call of downloadContent calls its callback at most once, exactly
\* once when it has ended, and finished() of one attempt is called at most
\* once (one timer pending at most), whatever events reach callFinished and
\* in whatever order.
C34_CallbackOncePerCall ==
    \A c \in Calls :
        /\ calls[c].callbacks <= 1
        /\ calls[c].st = "done" <=> calls[c].callbacks = 1
        /\ calls[c].timers <= 1
        /\ \A i \in 1..Len(calls[c].attempts) : calls[c].attempts[i].fin <= 1

\* a call has ended after a second attempt, and events came after the first
\* one of an attempt
C34_Witness ==
    \E c \in Calls :
        /\ calls[c].st = "done" /\ calls[c].callbacks = 1
        /\ calls[c].late
        /\ calls[c].tried >= 2

\* C19: under nopic, the section that transformSection returns holds no img
\* other than math images and no map, whatever the number and the arrangement
\* of the images and maps of the section.
C19_NopicLeavesNoPicture ==
    (returned /\ nopic) =>
        \A p \in 1..Len(innerHTML) :
            /\ innerHTML[p].tag = "img" => innerHTML[p].math
            /\ innerHTML[p].tag # "map"

\* C20: the section that transformSection returns holds no element whose
\* class is in cssClassBlackList, whatever the number of such elements.
C20_NoBlackListedClass ==
    returned =>
        \A p \in 1..Len(innerHTML) :
            \A k \in 1..Len(cssClassBlackList) :
                innerHTML[p].cls # cssClassBlackList[k]

\* the sum of the numeric pieces over the factors 1, 60, 3600, in arc-seconds
RECURSIVE DmsSum(_)
DmsSum(nums) ==
    IF nums = <<>> THEN 0
    ELSE Numeral[nums[Len(nums)]] * ArcSeconds[Len(nums)]
           + DmsSum(SubSeq(nums, 1, Len(nums) - 1))

HemiSign == [N |-> 1, S |-> -1, E |-> 1, W |-> -1, O |-> 1]

\* C22: for a geohack link in degree/minute/second form the coordinates of the
\* 'geo:' URL are the sums of the numeric pieces over the factors 1, 60, 3600,
\* times the sign of the hemisphere letter (N +, S -, E +, W -, O +).
C22_GeoSignedDms ==
    href.url # "geohack" =>
        /\ href.url = "geo"
        /\ href.lat = DmsSum(params.lat) * HemiSign[params.latHemi]
        /\ href.lon = DmsSum(params.lon) * HemiSign[params.lonHemi]

\* the elements of doc whose class is in cssClassBlackListIfNoLink and that
\* have (link = TRUE) or have not an <a> descendant
IfNoLinkNodes(doc, link) ==
    {p \in 1..Len(doc) :
        /\ \E k \in 1..Len(cssClassBlackListIfNoLink) :
              doc[p].cls = cssClassBlackListIfNoLink[k]
        /\ doc[p].link = link}

\* C21: in the section that transformSection returns, every element of a class
\* of cssClassBlackListIfNoLink that has an <a> descendant is still there and
\* none without an <a> descendant is left, whatever their number.
C21_DeletedIffNoLink ==
    returned =>
        /\ Cardinality(IfNoLinkNodes(innerHTML, TRUE))
              = Cardinality(IfNoLinkNodes(section, TRUE))
        /\ IfNoLinkNodes(innerHTML, FALSE) = {}

(***************************************************************************)
(* Claims on cacheRedirects                                                *)
(***************************************************************************)
\* C23: once cacheRedirects has called finished(), the redirect index file holds
\* one line for every source of the redirects store, whole, and no other line,
\* whatever the order of the hget answers and of the appends.
C23_OneLinePerRedirect ==
    cacheStep = "done" =>
        LET sources == {t \in Titles : redirects[t] # NoTitle}
        IN /\ Len(redirectsCacheFile) = Cardinality(sources)
           /\ \A t \in sources :
                 \E n \in 1..Len(redirectsCacheFile) :
                     redirectsCacheFile[n] = RedirectLine(t, redirects[t])

\* cacheRedirects has ended after two appends that ran at the same time
C23_Witness ==
    /\ cacheStep = "done"
    /\ overlapped
    /\ Len(redirectsCacheFile) >= 2

(***************************************************************************)
(* Claims on the site information                                          *)
(***************************************************************************)
\* u is t with every space replaced by an underscore
Underscored(t, u) ==
    /\ Len(u) = Len(t)
    /\ \A i \in 1..Len(t) : u[i] = (IF t[i] = " " THEN "_" ELSE t[i])

\* C24 (as stated): when no main page is configured, after getSiteInfo the
\* main page id is siteinfo.mainpage with '_' for ' ', with and without an
\* article list.
C24_MainPageFromSiteInfo ==
    (siteStep = "done" /\ customMainPage = Empty) =>
        Underscored(general.mainpage, mainPageId)

\* C24 (amended): when no main page is configured, after getSiteInfo the main
\* page id is siteinfo.mainpage with '_' for ' ' in namespace mode, and stays
\* empty in file mode, where getMainPage then writes the list of the articles
\* as index.htm; a configured main page is kept in both modes.
C24_MainPageFromSiteInfoByNamespace ==
    siteStep = "done" =>
        /\ IF customMainPage # Empty THEN mainPageId = customMainPage
           ELSE IF articleList THEN mainPageId = Empty
           ELSE Underscored(general.mainpage, mainPageId)
        /\ indexHtm # "none" =>
               (indexHtm = "list" <=> (customMainPage = Empty /\ articleList))

\* namespace mode, no main page configured, a main page with spaces: the main
\* page id is set and index.htm is the redirect
C24_Witness ==
    /\ siteStep = "done"
    /\ customMainPage = Empty /\ ~articleList
    /\ general.mainpage = <<"M", "a", "i", "n", " ", "P", "a", "g", "e">>
    /\ mainPageId = <<"M", "a", "i", "n", "_", "P", "a", "g", "e">>
    /\ indexHtm = "redirect"

(***************************************************************************)
(* Claims on getArticleBase                                                *)
(***************************************************************************)
\* C25: the file name getArticleBase returns, escaped or not and with its
\* '.html', is at most 250 bytes in UTF-8, and the name is never cut inside a
\* character.
C25_FilenameWithin250Bytes ==
    baseOut.called =>
        /\ ~baseOut.thrown
        /\ baseOut.bytes <= MaxFilenameBytes
        /\ ~LoneSurrogate(baseOut.filename)

\* C25, the part on the characters alone: the name is never cut inside a
\* character.
C25_NeverCutsInsideCharacter ==
    baseOut.called => ~LoneSurrogate(baseOut.filename)

\* C25, what does hold: the name before '.html' and before escaping is at most
\* 250 bytes, and is the whole title when that is at most 250 bytes.
C25_UnescapedBaseWithin250Bytes ==
    baseOut.called =>
        /\ byteLength(baseOut.filename) <= MaxFilenameBytes
        /\ byteLength(baseId) <= MaxFilenameBytes =>
               Len(baseOut.filename) = Len(baseId)

(***************************************************************************)
(* Claims on isMirrored                                                    *)
(***************************************************************************)
\* the part of id before its first ':' names, with '_' for ' ', a namespace
\* that is content (c = TRUE) or is not (c = FALSE)
PrefixNames(id, c) ==
    \E i \in 1..Len(id) :
        /\ id[i] = ":"
        /\ \A j \in 1..(i - 1) : id[j] # ":"
        /\ \E k \in NamespaceNames :
              /\ Underscored(SubSeq(id, 1, i - 1), k)
              /\ namespaces[k].defined
              /\ namespaces[k].isContent = c

\* C26: isMirrored(T) is true when T is in the article-id map; else it is true
\* exactly when the crawl is by namespace and the prefix of T before ':' names
\* a content namespace.
C26_MirroredInMapOrContentNamespace ==
    mirOut.called =>
        (mirOut.value <=> (\/ mirId \in mirIds
                           \/ ~mirList /\ PrefixNames(mirId, TRUE)))

\* C26, for the titles that are not in the article-id map: what does hold.
C26_NotInMap ==
    (mirOut.called /\ mirId \notin mirIds) =>
        (mirOut.value <=> (~mirList /\ PrefixNames(mirId, TRUE)))

C27_Barrier ==
    idsStep = "done" => \A t \in IdTitles : idsLookup[t] \in {"none", "done"}

C36_RedirectTargetsAreMapped ==
    idsStep = "done" =>
        /\ idsTargets \subseteq idsMap
        /\ \A t \in IdTitles : idsLookup[t] # "none" => t \in idsMap

\* C40: after a redirect lookup has failed (an error of the API, an answer
\* that does not parse) getArticleIds does not complete: the drain handler
\* gets the error and the process exits with code 1.
C40_FailedLookupEndsTheRun ==
    idsFailed # {} => idsStep # "done"

(***************************************************************************)
(* Claims on the timers of the enumeration                                 *)
(***************************************************************************)
\* C28: with len > 30000 items in the redirect queue the request for titles is
\* set to be sent after len - 30000 ms, by file and by namespace; with 30000
\* items or fewer it is set to be sent after 0 ms.
C28_BackOffAbove30000 ==
    scheduler = "waiting" =>
        /\ timer.fn = "downloadContent"
        /\ qLength > 30000 => timer.ms = qLength - 30000
        /\ qLength <= 30000 => timer.ms = 0

\* a request by file is held back for 30 ms by a queue of 30030 items
C28_Witness ==
    /\ scheduler = "waiting"
    /\ byFile
    /\ qLength = 30030
    /\ timer.ms = 30

(***************************************************************************)
(* Claims on the optimization of a file                                    *)
(***************************************************************************)
\* C30: the command of an optimization task is run at most 5 times; when every
\* attempt has failed the failure is logged and the task calls finished();
\* the process does not exit.
C30_AtMostFiveThenLoggedAndFinished ==
    /\ optRuns <= 5
    /\ optStep # "thrown"
    /\ optRuns = 5 /\ optStep \notin {"exec", "statAfter", "file", "wait"} =>
           optStep = "done" /\ optLog \in {"failed", "skipped", "ok"}

\* C30, the count alone: the command is run at most 5 times.
C30_AtMostFive ==
    optRuns <= 5

\* C30, while cmd stays a command: five failures are logged and the task calls
\* finished().
C30_FailureLogged ==
    (optRuns = 5 /\ optCmd # "none" /\ optStep \notin {"exec", "statAfter", "file", "wait"})
        => (optStep = "done" /\ optLog \in {"failed", "skipped", "ok"})

(***************************************************************************)
(* Claims on titles, redirects and saveArticles                            *)
(***************************************************************************)
\* C6: once enumeration is over, no source of the redirects store is in the
\* article-id map, saveArticles writes no article file at the path of a redirect
\* source, and no file path is written both by saveHtmlRedirects and by
\* saveArticles.
C6_RedirectsAndArticlesDisjoint ==
    phase # "getArticleIds" =>
        /\ \A src \in Titles : redirects[src] # NoTitle =>
              /\ src \notin articleIds
              /\ getArticleBase(src) \notin wroteArticle
        /\ wroteRedirect \cap wroteArticle = {}

\* C7: when saveArticles has signalled completion, every title that was in the
\* article-id map at the end of enumeration has had its file written, or has been
\* removed from the map with a logged error.
C7_EveryTitleWrittenOrDropped ==
    (phase = "drainDownloadFileQueue" /\ exitCode = -1) =>
        \A t \in idsAtEnumEnd :
            \/ art[t] = "saved" /\ getArticleBase(t) \in wroteArticle
                                /\ files[getArticleBase(t)] # "none"
            \/ t \in droppedLog /\ t \notin articleIds

C7_Witness ==
    /\ phase = "drainDownloadFileQueue" /\ exitCode = -1
    /\ \E t \in idsAtEnumEnd : art[t] = "saved" /\ files[getArticleBase(t)] = "article"
    /\ \E t \in idsAtEnumEnd : art[t] = "dropped" /\ t \in droppedLog

\* C8: when the fetch of an article body is exhausted and hands over an empty
\* body, the process does not exit.
C8_ExhaustedFetchDoesNotExit ==
    \A t \in Titles :
        (artBody[t] = "empty" /\ art[t] \notin {"caching", "fetched"}) => exitCode = -1

\* C9: when the answer for a title is a JSON object without lead, the title is
\* logged and removed from the article-id map and the run is not aborted.
C9_NoLeadDropsTitle ==
    \A t \in Titles : (artBody[t] = "nolead" /\ art[t] \notin ArtRunning) =>
        /\ exitCode = -1
        /\ t \in droppedLog
        /\ t \notin articleIds

\* C39: the page cache gets no entry from an exhausted fetch: an entry
\* written in this run (its headers file is newer than the ref file) does not
\* hold the empty body.
C39_NoCacheEntryOfFailedFetch ==
    \A t \in Titles : pageCache[t].mhdr => pageCache[t].body # "empty"

(***************************************************************************)
(* Claims on the run orchestrator                                          *)
(***************************************************************************)
\* C12: every exit with code 0 is preceded by the deletion of the four
\* run-prefixed KV databases, the early stop of checkResume included.
C12_ExitZeroAfterDeletion ==
    exitCode = 0 => dbDeleted

\* the phases that enumerate titles, fetch articles, download media, build the
\* archive or write to a KV database
WorkPhases ==
    {"getArticleIds", "cacheRedirects"} \cup {DumpSteps[k] : k \in 1..Len(DumpSteps)}

\* C16: with resume, when the archive of every requested variant exists,
\* checkResume leaves no variant, and from then on no title enumeration, article
\* fetch, media download or archive build is started, no phase that writes to a
\* KV database is started, and the process can only exit with code 0.
C16_ResumeAllDoneIsNoOp ==
    /\ [][(/\ phase = "checkResume" /\ running /\ resume
            /\ \A i \in 1..Len(dumps) : ~dumps[i].nozim /\ dumps[i].nopic \in zimExists
            /\ trace' # trace)
           => Len(dumps') = 0 /\ lastError']_vars
    /\ [](Len(dumps) = 0 =>
             /\ \A i \in 1..Len(trace) : trace[i].ph \notin WorkPhases
             /\ exitCode \in {-1, 0})

\* a run with resume, the archives with and without pictures on disk, that
\* found every variant done and exited 0
C16_Witness ==
    /\ resume /\ Len(dumps) = 0 /\ exitCode = 0
    /\ zimExists = {TRUE, FALSE}

\* a variant checkResume has to keep: resume is not set, the variant is nozim,
\* or its archive does not exist
KeptVariant(d) ==
    ~resume \/ d.nozim \/ d.nopic \notin zimExists

\* C32: checkResume leaves in the list exactly the variants that are nozim or
\* whose archive does not exist, in their order, and all of them without
\* resume; the phases after checkResume are called if and only if the list is
\* not empty.
C32_ResumeKeepsUnbuiltVariants ==
    /\ [][(phase = "checkResume" /\ running /\ ~running')
             => (/\ dumps' = SelectSeq(dumps, KeptVariant)
                 /\ lastError' = (dumps' = <<>>))]_vars
    /\ []((\E i \in 1..Len(trace) : trace[i].ph = "getArticleIds") => dumps # <<>>)
    /\ [][(phase = "checkResume" /\ ~running /\ phase' # phase)
             => (phase' = "getArticleIds" <=> dumps # <<>>)]_vars

\* with resume and both archives on disk a nozim variant is all that is left
\* and the run has gone on to getArticleIds
C32_Witness ==
    /\ resume /\ zimExists = {TRUE, FALSE}
    /\ dumps = <<[nopic |-> TRUE, nozim |-> TRUE]>>
    /\ phase = "getArticleIds"

\* C37: in buildZIM the HTML tree of the variant is kept exactly when
\* --keepHtml was given or the variant is nozim, whatever the variants before
\* it were.
C37_HtmlKeptByOptionOrNozimOnly ==
    phase = "buildZIM" =>
        (HtmlKept(nozim, keepHtml) <=> (keepHtmlArg \/ dumps[dumpIdx].nozim))

\* C38: redisMediaIdsDatabase holds no field when saveArticles of a variant
\* starts, also after a step of the variant before it ended with an error.
C38_MediaIdsEmptyAtSaveArticles ==
    (phase = "saveArticles" /\ running /\ exitCode = -1) => ~mediaIds

\* C13: the process ends with exit code 0 only on clean completion: never after
\* a step of a dump variant has failed.
C13_ExitZeroOnlyIfNoStepFailed ==
    exitCode = 0 => \A f \in failedSteps : ~InSeq(DumpSteps, f[1])

\* the place of a phase in the order login .. cacheRedirects, the steps of
\* variant 1, of variant 2, .., cleanCache, delDatabases, closeAgents, exit
Rank(e) ==
    IF InSeq(MainSteps, e.ph) THEN IndexOf(MainSteps, e.ph)
    ELSE IF InSeq(DumpSteps, e.ph)
         THEN Len(MainSteps) + (e.d - 1) * Len(DumpSteps) + IndexOf(DumpSteps, e.ph)
    ELSE Len(MainSteps) + (MaxDumps + 1) * Len(DumpSteps) + IndexOf(FinalSteps, e.ph)

\* C1: the phases start in the order of the list (login .. cacheRedirects, then
\* for each variant createSubDirectories .. endProcess, then cleanCache,
\* delDatabases, closeAgents, exit), and a phase starts only when the phase
\* started before it has signalled completion; saveHtmlRedirects starts only
\* with writeHtmlRedirects, and exit is exit(0).
C1_PhaseOrder ==
    /\ \A i \in 1..Len(trace) :
          /\ trace[i].ev = "start" =>
                /\ i > 1 => /\ trace[i - 1].ev = "done"
                            /\ Rank(trace[i - 1]) < Rank(trace[i])
                /\ trace[i].ph = "saveHtmlRedirects" => writeHtmlRedirects
          /\ trace[i].ev = "done" =>
                /\ i > 1
                /\ trace[i - 1] = [ev |-> "start", ph |-> trace[i].ph, d |-> trace[i].d]
    /\ (Len(trace) > 0 /\ trace[Len(trace)].ph = "exit") <=> exitCode = 0

\* a run of two variants that went through every phase and ended with exit(0)
C1_Witness ==
    /\ exitCode = 0
    /\ Len(dumps) = 2
    /\ \A d \in 1..2 : \A k \in 1..Len(DumpSteps) :
          \E i \in 1..Len(trace) :
              trace[i] = [ev |-> "start", ph |-> DumpSteps[k], d |-> d]
    /\ \E i \in 1..Len(trace) : trace[i].ph = "cleanCache"

====
